---------------------------- MODULE Spec2Model ----------------------------
(***************************************************************************)
(* Cache-aside gateway (API de Consultas PE, version 1.2.0).               *)
(*                                                                         *)
(* A request is validated, looked up in Firebase Storage, fetched from the *)
(* upstream API on a miss, answered, and persisted by a timer callback.    *)
(* Every action is one run of the event loop between two await points of   *)
(* the handler: the call that suspends the handler is issued by the action *)
(* that reaches it, and the external party's answer starts the next one.   *)
(*                                                                         *)
(* Strings the code inspects (storage keys, parameter values, upstream     *)
(* strings, stored payloads) are sequences of one-character strings.       *)
(***************************************************************************)
EXTENDS Integers, Sequences, FiniteSets, TLC

\* ------------------------------------------------------------------ bounds

\* Number of client requests of one run.
MaxReq == 2

\* Largest value of the clocks (Date.now() and the store's clock), counted in
\* milliseconds from the start of the run.
MaxClock == 3

\* ------------------------------------------------------- program constants

\* bucket.getFiles({ prefix, maxResults: 50 })
maxResults == 50

\* ----------------------------------------------------------------- strings

Lower == [c \in {"A", "B", "P", "N", "G"} |->
            CASE c = "A" -> "a" [] c = "B" -> "b" [] c = "P" -> "p"
              [] c = "N" -> "n" [] c = "G" -> "g"]

\* String.prototype.toLowerCase
toLowerCase(s) == [i \in 1..Len(s) |-> IF s[i] \in DOMAIN Lower THEN Lower[s[i]] ELSE s[i]]

AlnumChars == {"a", "b", "c", "d", "e", "f", "g", "h", "i", "j", "k", "l", "m",
               "n", "o", "p", "q", "r", "s", "t", "u", "v", "w", "x", "y", "z",
               "A", "B", "P", "N", "G",
               "0", "1", "2", "3", "4", "5", "6", "7", "8", "9"}

\* String.prototype.includes
includes(s, sub) ==
    \E i \in 0..(Len(s) - Len(sub)) : \A j \in 1..Len(sub) : s[i + j] = sub[j]

\* String.prototype.startsWith
startsWith(s, pre) ==
    Len(pre) <= Len(s) /\ \A j \in 1..Len(pre) : s[j] = pre[j]

\* String.prototype.endsWith
endsWith(s, suf) ==
    Len(suf) <= Len(s) /\ \A j \in 1..Len(suf) : s[Len(s) - Len(suf) + j] = suf[j]

WhiteSpace == {" ", "\n"}

\* String.prototype.trim
trim(s) ==
    LET keep == {i \in 1..Len(s) : s[i] \notin WhiteSpace}
    IN  IF keep = {} THEN <<>>
        ELSE LET lo == CHOOSE i \in keep : \A j \in keep : i <= j
                 hi == CHOOSE i \in keep : \A j \in keep : j <= i
             IN  SubSeq(s, lo, hi)

\* Array.prototype.join over strings
RECURSIVE join(_, _)
join(parts, sep) ==
    IF Len(parts) = 0 THEN <<>>
    ELSE IF Len(parts) = 1 THEN parts[1]
    ELSE parts[1] \o sep \o join(Tail(parts), sep)

DigitChar == [d \in 0..9 |->
                CASE d = 0 -> "0" [] d = 1 -> "1" [] d = 2 -> "2" [] d = 3 -> "3"
                  [] d = 4 -> "4" [] d = 5 -> "5" [] d = 6 -> "6" [] d = 7 -> "7"
                  [] d = 8 -> "8" [] d = 9 -> "9"]

\* Decimal rendering of a number inside a template literal
RECURSIVE numToString(_)
numToString(n) ==
    IF n < 10 THEN <<DigitChar[n]>>
    ELSE numToString(n \div 10) \o <<DigitChar[n % 10]>>

\* ------------------------------------------------------------ storage keys

s_consultas == <<"c", "o", "n", "s", "u", "l", "t", "a", "s", "/">>
s_media     == <<"m", "e", "d", "i", "a", "/">>
s_json      == <<"j", "s", "o", "n">>

\* endpoint.replace(/\//g, '_').replace(/^_/, '')
safeEndpoint(endpoint) ==
    LET u == [i \in 1..Len(endpoint) |-> IF endpoint[i] = "/" THEN "_" ELSE endpoint[i]]
    IN  IF Len(u) > 0 /\ u[1] = "_" THEN Tail(u) ELSE u

\* Mutant: the characters outside [a-zA-Z0-9] are dropped.
safeParamValue_drop(paramValue) ==
    SelectSeq(paramValue, LAMBDA c : c \in AlnumChars)

\* paramValue.toString().replace(/[^a-zA-Z0-9]/g, '_')
safeParamValue(paramValue) ==
    [i \in 1..Len(paramValue) |->
        IF paramValue[i] \in AlnumChars THEN paramValue[i] ELSE "_"]

\* `consultas/${safeEndpoint}/${paramName}_${safeParamValue}_${timestamp}.json`
generateStoragePath(endpoint, paramName, paramValue, timestamp) ==
    s_consultas \o safeEndpoint(endpoint) \o <<"/">>
        \o paramName \o <<"_">> \o safeParamValue(paramValue) \o <<"_">>
        \o numToString(timestamp) \o <<".">> \o s_json

\* `consultas/${safeEndpoint}/media/${paramName}_${safeParamValue}_${timestamp}.${extension}`
generateMediaPath(endpoint, paramName, paramValue, extension, timestamp) ==
    s_consultas \o safeEndpoint(endpoint) \o <<"/">> \o s_media
        \o paramName \o <<"_">> \o safeParamValue(paramValue) \o <<"_">>
        \o numToString(timestamp) \o <<".">> \o extension

\* Mutant: the prefix of the listing does not end the directory name.
cachePrefix_open(endpoint) == s_consultas \o safeEndpoint(endpoint)

\* `consultas/${endpoint.replace(/\//g, '_').replace(/^_/, '')}/`
cachePrefix(endpoint) == s_consultas \o safeEndpoint(endpoint) \o <<"/">>

\* ------------------------------------------------------------- JSON values

\* A JSON value: null, a number, a string, an object {k: s} or an array [s].
JNull      == [t |-> "null", k |-> <<>>, s |-> <<>>]
JNum(d)    == [t |-> "num",  k |-> <<>>, s |-> d]
JStr(s)    == [t |-> "str",  k |-> <<>>, s |-> s]
JObj(k, s) == [t |-> "obj",  k |-> k,    s |-> s]
JArr(s)    == [t |-> "arr",  k |-> <<>>, s |-> s]
\* No value (undefined).
NoVal      == [t |-> "none", k |-> <<>>, s |-> <<>>]

\* typeof v === 'object'
isObjectType(v) == v.t \in {"null", "obj", "arr"}

\* JavaScript truthiness of a JSON value
truthy(v) ==
    CASE v.t \in {"obj", "arr"} -> TRUE
      [] v.t = "str" -> v.s # <<>>
      [] v.t = "num" -> v.s # <<"0">>
      [] OTHER -> FALSE

Quoted(s) == <<"\"">> \o s \o <<"\"">>

\* JSON.stringify(data, null, 2)
JSONstringify(v) ==
    CASE v.t = "null" -> <<"n", "u", "l", "l">>
      [] v.t = "num"  -> v.s
      [] v.t = "str"  -> Quoted(v.s)
      [] v.t = "obj"  -> <<"{", "\n", " ", " ">> \o Quoted(v.k) \o <<":", " ">>
                            \o Quoted(v.s) \o <<"\n", "}">>
      [] v.t = "arr"  -> <<"[", "\n", " ", " ">> \o Quoted(v.s) \o <<"\n", "]">>

\* String(data)
String(v) ==
    CASE v.t = "str" -> v.s
      [] v.t = "num" -> v.s
      [] OTHER -> JSONstringify(v)

s_http    == <<"h", "t", "t", "p", ":", "/", "/", "x", "/">>
s_hello   == <<"h", "e", "l", "l", "o">>
s_url     == <<"u", "r", "l">>
s_text    == <<"t", "e", "x", "t">>
s_message == <<"m", "e", "s", "s", "a", "g", "e">>
s_error   == <<"e", "r", "r", "o", "r">>
s_png     == <<"p", "n", "g">>
s_pdf     == <<"p", "d", "f">>
s_jpg     == <<"j", "p", "g">>
s_jpeg    == <<"j", "p", "e", "g">>
s_gif     == <<"g", "i", "f">>
s_webp    == <<"w", "e", "b", "p">>
s_bin     == <<"b", "i", "n">>

\* Strings the upstream API may answer with.
url_png     == s_http \o <<"i", ".">> \o s_png
url_jpeg    == s_http \o <<"i", ".">> \o s_jpeg
url_pdf     == s_http \o <<"d", ".">> \o s_pdf
url_unknown == s_http \o <<"u">>
s_broken    == <<"{", "b">>

\* Results of a 2xx upstream reply (response.data): an object, a plain string,
\* the URL of an image, a string that starts like JSON and is none, and null.
UpstreamResults ==
    { JObj(<<"n">>, <<"a", "n", "a">>), JStr(s_hello), JStr(url_png), JStr(s_broken),
      JNull }

\* Payloads of a non-2xx upstream reply (err.response.data); an empty body is "".
UpstreamErrorData ==
    { JStr(<<>>), JObj(s_message, <<"n", "o">>), JObj(s_error, <<"n", "o">>) }

\* err.code of a failure without a reply.
TransportCodes == {"ECONNABORTED", "ENOTFOUND", "ECONNREFUSED"}

\* Results of a 2xx upstream reply of the second specification: an object, an
\* array, a plain string, and the URLs of a document, of a page and of an image.
KeyResults ==
    { JObj(<<"n">>, <<"a", "n", "a">>), JArr(<<"a">>), JStr(s_hello), JStr(url_pdf),
      JStr(url_unknown), JStr(url_jpeg) }

\* The documents JSON.parse accepts here.
JsonUniverse ==
    LET results == UpstreamResults \cup KeyResults
    IN  results \cup UpstreamErrorData
            \cup {JObj(s_url, v.s) : v \in {u \in results : u.t = "str"}}
            \cup {JObj(s_text, v.s) : v \in {u \in results : u.t = "str"}}

\* JSON.parse succeeds on contentString
parses(contentString) ==
    \E v \in JsonUniverse : JSONstringify(v) = trim(contentString)

\* JSON.parse(contentString)
JSONparse(contentString) ==
    CHOOSE v \in JsonUniverse : JSONstringify(v) = trim(contentString)

\* ------------------------------------------------------------------ routes

n_dni        == <<"d", "n", "i">>
n_query      == <<"q", "u", "e", "r", "y">>
n_dni_o_ruc  == <<"d", "n", "i", "_", "o", "_", "r", "u", "c">>
n_pasaporte  == <<"p", "a", "s", "a", "p", "o", "r", "t", "e">>
n_apepaterno == <<"a", "p", "e", "p", "a", "t", "e", "r", "n", "o">>
n_apematerno == <<"a", "p", "e", "m", "a", "t", "e", "r", "n", "o">>
n_caso       == <<"c", "a", "s", "o">>
n_distritojudicial ==
    <<"d", "i", "s", "t", "r", "i", "t", "o", "j", "u", "d", "i", "c", "i", "a", "l">>

ParamNames == { n_dni, n_query, n_dni_o_ruc, n_pasaporte, n_apepaterno,
                n_apematerno, n_caso, n_distritojudicial }

p_dni         == <<"/">> \o n_dni
p_sun         == <<"/", "s", "u", "n">>
p_sunat       == <<"/", "s", "u", "n", "a", "t">>
p_osiptel     == <<"/", "o", "s", "i", "p", "t", "e", "l">>
p_pasaporte   == <<"/">> \o n_pasaporte
p_fisdet      == <<"/", "f", "i", "s", "d", "e", "t">>
p_dni_nombres == <<"/", "d", "n", "i", "_", "n", "o", "m", "b", "r", "e", "s">>

\* One route per shape of handler: path is req.path, apiPath the upstream path,
\* handler the code that serves it, names the parameters it reads, in order.
Route(path, apiPath, handler, names) ==
    [path |-> path, apiPath |-> apiPath, handler |-> handler, names |-> names]

Routes ==
    { Route(p_dni, p_dni, "dniEndpoints", <<n_dni>>),
      Route(p_sun, p_sun, "sun", <<n_dni_o_ruc, n_query>>),
      Route(p_sunat, p_sun, "sun", <<n_dni_o_ruc, n_query>>),
      Route(p_osiptel, p_osiptel, "MultipleParamNames", <<n_dni, n_query>>),
      Route(p_pasaporte, p_pasaporte, "pasaporte", <<n_dni, n_pasaporte>>),
      Route(p_fisdet, p_fisdet, "fisdet",
            <<n_caso, n_distritojudicial, n_dni, n_query>>),
      Route(p_dni_nombres, p_dni_nombres, "MultipleParams",
            <<n_apepaterno, n_apematerno>>) }

\* const dniEndpoints = [ "dni", "dnif", ... ]
dniEndpoints ==
    { <<"d", "n", "i">>,
      <<"d", "n", "i", "f">>,
      <<"d", "n", "i", "d", "b">>,
      <<"d", "n", "i", "f", "d", "b">>,
      <<"c", "4">>,
      <<"d", "n", "i", "v", "a", "z">>,
      <<"d", "n", "i", "v", "a", "m">>,
      <<"d", "n", "i", "v", "e", "l">>,
      <<"d", "n", "i", "v", "e", "l", "n">>,
      <<"f", "a">>,
      <<"f", "a", "d", "b">>,
      <<"f", "b">>,
      <<"f", "b", "d", "b">>,
      <<"c", "n", "v">>,
      <<"c", "d", "e", "f">>,
      <<"a", "n", "t", "p", "e", "n">>,
      <<"a", "n", "t", "p", "o", "l">>,
      <<"a", "n", "t", "j", "u", "d">>,
      <<"a", "c", "t", "a", "n", "c", "c">>,
      <<"a", "c", "t", "a", "m", "c", "c">>,
      <<"a", "c", "t", "a", "d", "c", "c">>,
      <<"t", "r", "a">>,
      <<"s", "u", "e">>,
      <<"c", "l", "a">>,
      <<"s", "u", "n", "e">>,
      <<"c", "u", "n">>,
      <<"c", "o", "l", "p">>,
      <<"m", "i", "n", "e">>,
      <<"a", "f", "p">>,
      <<"a", "n", "t", "p", "e", "n", "v">>,
      <<"d", "e", "n", "d">>,
      <<"m", "e", "t", "a">>,
      <<"f", "i", "s">>,
      <<"d", "e", "t">>,
      <<"r", "q", "h">>,
      <<"a", "g", "v">>,
      <<"a", "g", "v", "p">> }

\* The paths of the routes that go through the cache: the app.get routes from
\* /sun to /fisdet, those of dniEndpoints among them.
CachedRoutePaths ==
    { <<"/", "s", "u", "n">>,
      <<"/", "s", "u", "n", "a", "t">>,
      <<"/", "o", "s", "i", "p", "t", "e", "l">>,
      <<"/", "c", "l", "a", "r", "o">>,
      <<"/", "e", "n", "t", "e", "l">>,
      <<"/", "p", "r", "o">>,
      <<"/", "s", "e", "n">>,
      <<"/", "s", "b", "s">>,
      <<"/", "p", "a", "s", "a", "p", "o", "r", "t", "e">>,
      <<"/", "s", "e", "e", "k", "e", "r">>,
      <<"/", "b", "d", "i", "r">>,
      <<"/", "t", "r", "e", "m", "p">>,
      <<"/", "d", "n", "i", "_", "n", "o", "m", "b", "r", "e", "s">>,
      <<"/", "v", "e", "n", "e", "z", "o", "l", "a", "n", "o", "s", "_", "n", "o", "m", "b", "r", "e", "s">>,
      <<"/", "d", "e", "n", "c", "e">>,
      <<"/", "d", "e", "n", "p", "a", "s">>,
      <<"/", "d", "e", "n", "c", "i">>,
      <<"/", "d", "e", "n", "p">>,
      <<"/", "d", "e", "n", "a", "r">>,
      <<"/", "d", "e", "n", "c", "l">>,
      <<"/", "c", "e", "d", "u", "l", "a">>,
      <<"/", "f", "i", "s", "d", "e", "t">> }
        \cup {<<"/">> \o endpoint : endpoint \in dniEndpoints}

\* req.query[param] of a parameter the URL does not carry.
Undefined == <<"undefined">>

\* !req.query[param]
falsy(v) == v = Undefined \/ v = <<>>

\* a || b
orElse(a, b) == IF falsy(a) THEN b ELSE a

\* req.query of a URL carrying the given <<name, value>> pairs.
Query(pairs) ==
    [n \in ParamNames |->
        IF \E i \in 1..Len(pairs) : pairs[i][1] = n
        THEN pairs[CHOOSE i \in 1..Len(pairs) : pairs[i][1] = n][2]
        ELSE Undefined]

\* Array.prototype.filter over a sequence of parameter names
RECURSIVE filterFalsy(_, _)
filterFalsy(names, query) ==
    IF names = <<>> THEN <<>>
    ELSE (IF falsy(query[Head(names)]) THEN <<Head(names)>> ELSE <<>>)
            \o filterFalsy(Tail(names), query)

\* for (const param of possibleParamNames) { if (req.query[param]) ... break; }
RECURSIVE firstWithValue(_, _)
firstWithValue(names, query) ==
    IF names = <<>> THEN <<>>
    ELSE IF ~falsy(query[Head(names)]) THEN Head(names)
    ELSE firstWithValue(Tail(names), query)

\* A response message: a fixed text (id), the parameter names it spells out,
\* an upstream string it carries and a number it carries.
Msg(id, names, s, n) == [id |-> id, names |-> names, s |-> s, n |-> n]
NoMsg == Msg("", <<>>, <<>>, 0)

\* Outcome of the checks a route handler makes before it calls the coordinator.
Rejected(message) ==
    [ok |-> FALSE, message |-> message, paramName |-> <<>>, paramValue |-> <<>>,
     params |-> <<>>]
Accepted(paramName, paramValue, params) ==
    [ok |-> TRUE, message |-> NoMsg, paramName |-> paramName,
     paramValue |-> paramValue, params |-> params]

\* Mutant: the name passed on is the name that carried the value.
validateSun_named(route, query) ==
    LET paramValue == orElse(query[n_dni_o_ruc], query[n_query])
        paramName  == IF ~falsy(query[n_dni_o_ruc]) THEN n_dni_o_ruc ELSE n_query
    IN  IF falsy(paramValue)
        THEN Rejected(Msg("dni_o_ruc o query requerido", <<n_dni_o_ruc, n_query>>, <<>>, 0))
        ELSE Accepted(paramName, paramValue, <<<<paramName, paramValue>>>>)

\* app.get("/sun") and app.get("/sunat")
validateSun(route, query) ==
    LET paramValue == orElse(query[n_dni_o_ruc], query[n_query])
    IN  IF falsy(paramValue)
        THEN Rejected(Msg("dni_o_ruc o query requerido", <<n_dni_o_ruc, n_query>>, <<>>, 0))
        ELSE Accepted(n_dni_o_ruc, paramValue, <<<<n_dni_o_ruc, paramValue>>>>)

\* Mutant: only an absent dni is rejected, an empty one is looked up.
validateDni_undefinedOnly(route, query) ==
    LET dni == query[n_dni]
    IN  IF dni = Undefined
        THEN Rejected(Msg("dni requerido", <<n_dni>>, <<>>, 0))
        ELSE Accepted(n_dni, dni, <<<<n_dni, dni>>>>)

\* dniEndpoints.forEach(endpoint => app.get(...))
validateDni(route, query) ==
    LET dni == query[n_dni]
    IN  IF falsy(dni)
        THEN Rejected(Msg("dni requerido", <<n_dni>>, <<>>, 0))
        ELSE Accepted(n_dni, dni, <<<<n_dni, dni>>>>)

\* fetchFromNewAPIWithMultipleParamNames, and the same loop inlined in /fisdet
validateMultipleParamNames(route, query) ==
    LET paramName == firstWithValue(route.names, query)
    IN  IF paramName = <<>>
        THEN Rejected(Msg("Se requiere uno de los siguientes parametros", route.names,
                          <<>>, 0))
        ELSE Accepted(paramName, query[paramName], <<<<paramName, query[paramName]>>>>)

\* app.get("/pasaporte")
validatePasaporte(route, query) ==
    LET paramValue == orElse(query[n_dni], query[n_pasaporte])
        paramName  == IF ~falsy(query[n_dni]) THEN n_dni ELSE n_pasaporte
    IN  IF falsy(paramValue)
        THEN Rejected(Msg("dni o pasaporte requerido", <<n_dni, n_pasaporte>>, <<>>, 0))
        ELSE Accepted(paramName, paramValue, <<<<paramName, paramValue>>>>)

\* Mutant: the upstream call carries the composite name and value.
validateMultipleParams_composite(route, query) ==
    LET missingParams == filterFalsy(route.names, query)
        paramKey   == join(route.names, <<"_">>)
        paramValue == join([i \in 1..Len(route.names) |-> query[route.names[i]]], <<"_">>)
    IN  IF Len(missingParams) > 0
        THEN Rejected(Msg("Parametros requeridos faltantes", missingParams, <<>>, 0))
        ELSE Accepted(paramKey, paramValue, <<<<paramKey, paramValue>>>>)

\* fetchFromNewAPIWithMultipleParams, up to the cache lookup
validateMultipleParams(route, query) ==
    LET missingParams == filterFalsy(route.names, query)
    IN  IF Len(missingParams) > 0
        THEN Rejected(Msg("Parametros requeridos faltantes", missingParams, <<>>, 0))
        ELSE Accepted(join(route.names, <<"_">>),
                      join([i \in 1..Len(route.names) |-> query[route.names[i]]], <<"_">>),
                      [i \in 1..Len(route.names) |->
                          <<route.names[i], query[route.names[i]]>>])

\* The route handler, up to its call of the coordinator.
validate(route, query) ==
    CASE route.handler = "sun"                -> validateSun(route, query)
      [] route.handler = "dniEndpoints"       -> validateDni(route, query)
      [] route.handler = "pasaporte"          -> validatePasaporte(route, query)
      [] route.handler = "MultipleParams"     -> validateMultipleParams(route, query)
      [] OTHER                                -> validateMultipleParamNames(route, query)

\* --------------------------------------------------------------- responses

\* err.response?.data || err.message: the upstream payload (from = "data") or
\* the text of the error (from = "message").
Detalle(from, v, text) == [from |-> from, v |-> v, text |-> text]
NoDetalle == Detalle("none", NoVal, NoMsg)

\* The JSON body handed to res.json: a value sent verbatim (form "value"), the
\* wrapper the lookup builds around a payload that is not JSON (form "wrapper"),
\* or a {success: false, ...} object (form "error"); fields are its keys.
Body(form, value, message, detalle, data, storageReference, endpoint, param, fields) ==
    [form |-> form, value |-> value, message |-> message, detalle |-> detalle,
     data |-> data, storageReference |-> storageReference, endpoint |-> endpoint,
     param |-> param, fields |-> fields]
NoBody == Body("none", NoVal, NoMsg, NoDetalle, <<>>, <<>>, <<>>, <<>>, {})
ValueBody(v) == Body("value", v, NoMsg, NoDetalle, <<>>, <<>>, <<>>, <<>>, {})

\* { success: true, message: "Resultado desde cache", data, storageReference }
WrapperBody(contentString, name) ==
    Body("wrapper", NoVal, Msg("Resultado desde cache", <<>>, <<>>, 0), NoDetalle,
         contentString, name, <<>>, <<>>,
         {"success", "message", "data", "storageReference"})

\* { success: false, message }
RejectBody(message) ==
    Body("error", NoVal, message, NoDetalle, <<>>, <<>>, <<>>, <<>>,
         {"success", "message"})

\* body.success
success(body) == body.form \in {"wrapper", "cleared", "stats"}

\* An answer of the upstream API to one GET: a 2xx reply with its data
\* (kind "ok"), a reply with another status (kind "http": err.response is set),
\* or no reply at all (kind "transport": err.code says why).
Reply(kind, status, data, code) ==
    [kind |-> kind, status |-> status, data |-> data, code |-> code]
NoReply == Reply("none", 0, NoVal, "")

UpstreamReplies ==
    {Reply("ok", 200, d, "") : d \in UpstreamResults}
        \cup {Reply("http", 404, d, "ERR_BAD_REQUEST") : d \in UpstreamErrorData}
        \cup {Reply("http", 502, JObj(s_message, <<"n", "o">>), "ERR_BAD_RESPONSE")}
        \cup {Reply("transport", 0, NoVal, c) : c \in TransportCodes}

\* err.message
errMessage(err) ==
    IF err.kind = "http" THEN Msg("Request failed with status code", <<>>, <<>>, err.status)
    ELSE Msg(err.code, <<>>, <<>>, 0)

\* Mutant: detalle is the text of the error, whatever the upstream sent.
detalleOf_messageOnly(err) == Detalle("message", NoVal, errMessage(err))

\* err.response?.data || err.message
detalleOf(err) ==
    IF err.kind = "http" /\ truthy(err.data)
    THEN Detalle("data", err.data, NoMsg)
    ELSE Detalle("message", NoVal, errMessage(err))

\* err.response.data?.message || `Error ${statusCode} del servidor`
upstreamMessage(err) ==
    IF err.data.t = "obj" /\ err.data.k = s_message /\ err.data.s # <<>>
    THEN Msg("", <<>>, err.data.s, 0)
    ELSE Msg("Error del servidor", <<>>, <<>>, err.status)

\* handleWithCache, catch (err): the status of the error response
statusCodeOf(err) ==
    IF err.kind = "http" THEN err.status
    ELSE IF err.code = "ECONNABORTED" THEN 504
    ELSE IF err.code = "ENOTFOUND" THEN 503
    ELSE 500

\* handleWithCache, catch (err): the message of the error response
errorMessageOf(err) ==
    IF err.kind = "http" THEN upstreamMessage(err)
    ELSE IF err.code = "ECONNABORTED"
    THEN Msg("Timeout en la consulta a la API externa", <<>>, <<>>, 0)
    ELSE IF err.code = "ENOTFOUND"
    THEN Msg("No se pudo conectar con la API externa", <<>>, <<>>, 0)
    ELSE Msg("Error en la consulta", <<>>, <<>>, 0)

\* fetchFromNewAPIWithMultipleParams, catch (err): err.response?.status || 500
statusCodeOfMultipleParams(err) ==
    IF err.kind = "http" THEN err.status ELSE 500

\* ---------------------------------------------------------- classification

ImageExtensions == {s_jpg, s_jpeg, s_png, s_gif, s_webp}

\* lowerResult.match(/\.(jpg|jpeg|png|gif|webp)(\?|$)/)
matchesImage(lowerResult) ==
    \E e \in ImageExtensions :
        \/ endsWith(lowerResult, <<".">> \o e)
        \/ includes(lowerResult, <<".">> \o e \o <<"?">>)

\* What the timer callback of handleWithCache does with resultData: "text"
\* (saveTextToStorage of data), "image" or "pdf" (saveMediaFromUrl), or "nothing".
Plan(kind, data) == [kind |-> kind, data |-> data]

classify(resultData) ==
    IF truthy(resultData) /\ isObjectType(resultData) THEN Plan("text", resultData)
    ELSE IF resultData.t = "str"
    THEN IF startsWith(resultData.s, <<"h", "t", "t", "p">>)
         THEN IF matchesImage(toLowerCase(resultData.s)) THEN Plan("image", resultData)
              ELSE IF includes(toLowerCase(resultData.s), <<".">> \o s_pdf)
              THEN Plan("pdf", resultData)
              ELSE Plan("text", JObj(s_url, resultData.s))
         ELSE Plan("text", JObj(s_text, resultData.s))
    ELSE Plan("nothing", NoVal)

\* The timer callback of fetchFromNewAPIWithMultipleParams
classifyMultipleParams(resultData) == Plan("text", resultData)

\* saveTextToStorage: typeof data === 'object' ? JSON.stringify(data, null, 2) : String(data)
textContent(data) == IF isObjectType(data) THEN JSONstringify(data) ELSE String(data)

\* saveMediaFromUrl: the extension chosen from the URL
mediaExtension(url) ==
    LET urlLower == toLowerCase(url)
        has(e)   == includes(urlLower, <<".">> \o e)
    IN  IF has(s_jpg) \/ has(s_jpeg) THEN s_jpg
        ELSE IF has(s_png) THEN s_png
        ELSE IF has(s_gif) THEN s_gif
        ELSE IF has(s_pdf) THEN s_pdf
        ELSE IF has(s_webp) THEN s_webp
        ELSE s_bin

\* saveMediaFromUrl: the MIME type chosen from the URL; the default is the
\* contentType argument ('image' or 'pdf').
mediaContentType(url, contentType) ==
    LET e == mediaExtension(url)
    IN  CASE e = s_jpg  -> "image/jpeg"
          [] e = s_png  -> "image/png"
          [] e = s_gif  -> "image/gif"
          [] e = s_pdf  -> "application/pdf"
          [] e = s_webp -> "image/webp"
          [] OTHER      -> contentType

\* Bytes of a downloaded medium, as fileContent.toString('utf8') shows them.
MediaBytes == <<"%", "P", "N", "G">>

\* ------------------------------------------------------------------ lookup

\* A stored object: its name, the creation time the store recorded, its
\* payload and its content type.
File(name, timeCreated, content, contentType) ==
    [name |-> name, timeCreated |-> timeCreated, content |-> content,
     contentType |-> contentType]

\* The sets left of S when n of its members are left out.
RECURSIVE without(_, _)
without(S, n) ==
    IF n <= 0 \/ S = {} THEN {S}
    ELSE UNION {without(S \ {f}, n - 1) : f \in S}

\* The answers bucket.getFiles({ prefix, maxResults }) can give on store fs:
\* the objects under the prefix, at most maxResults of them.
Listings(fs, prefix) ==
    LET under == {f \in fs : startsWith(f.name, prefix)}
    IN  without(under, Cardinality(under) - maxResults)

\* Mutant: an object matches when its key holds the sanitised value between
\* two underscores.
matchingFiles_exact(listed, paramValue) ==
    {f \in listed :
        includes(toLowerCase(f.name),
                 <<"_">> \o toLowerCase(safeParamValue(paramValue)) \o <<"_">>)}

\* files.filter(file => file.name.toLowerCase().includes(paramValue.toString().toLowerCase()))
matchingFiles(listed, paramValue) ==
    {f \in listed : includes(toLowerCase(f.name), toLowerCase(paramValue))}

\* Mutant: the matching objects are not sorted, any of them comes first.
latestFiles_unsorted(matching) == matching

\* matchingFiles.sort(by timeCreated, latest first)[0]: the candidates. Objects
\* created in the same millisecond keep the order of the listing.
latestFiles(matching) ==
    {f \in matching : \A g \in matching : g.timeCreated <= f.timeCreated}

\* checkStorageCache after latestFile.download(): the value returned for the
\* payload, NoBody standing for null.
decode(contentString, name) ==
    IF startsWith(trim(contentString), <<"{">>) \/ startsWith(trim(contentString), <<"[">>)
    THEN IF parses(contentString) THEN ValueBody(JSONparse(contentString)) ELSE NoBody
    ELSE WrapperBody(contentString, name)

\* ------------------------------------------------------------------ state

\* bucket: whether the store handle was obtained at start-up (module scope).
\* files:  the objects of the store.
\* now:    the clock, in milliseconds.
\* req:    the requests of the run, each with the position of its handler
\*         (pc), the position of its timer callback (persist), what it has
\*         read and sent, and the calls it has issued. A request of the
\*         bulk-clear endpoint holds the names it listed, those not yet in
\*         a batch (todo), the batch, the deletes in flight (pending) and
\*         deletedCount.
VARIABLES bucket, files, now, req

vars == <<bucket, files, now, req>>

Requests == 1..MaxReq

NoRoute == Route(<<>>, <<>>, "", <<>>)

\* A request that has not arrived yet.
IdleRequest ==
    [pc |-> "idle", route |-> NoRoute, query |-> Query(<<>>), handler |-> "",
     paramName |-> <<>>, paramValue |-> <<>>, params |-> <<>>,
     hist |-> <<>>, listings |-> 0, downloads |-> 0, gets |-> 0, url |-> <<>>,
     storeHadMatch |-> "unknown", storeError |-> "none", latestFile |-> <<>>,
     cachedResult |-> NoBody, reply |-> NoReply, resultData |-> NoVal,
     status |-> 0, body |-> NoBody, sent |-> 0,
     persist |-> "none", plan |-> "none", filePath |-> <<>>, content |-> <<>>,
     contentType |-> "", mediaGets |-> 0, puts |-> 0,
     listed |-> {}, todo |-> {}, batch |-> {}, pending |-> {}, deleted |-> 0]

\* The inputs of the run: a route and the query string of the URL.
Input(route, pairs) == [route |-> route, query |-> Query(pairs)]

RouteOf(path) == CHOOSE r \in Routes : r.path = path

v_78 == <<"7", "8">>
v_a  == <<"a">>
v_b  == <<"b">>

ValidInputs ==
    { Input(RouteOf(p_dni), <<<<n_dni, v_78>>>>),
      Input(RouteOf(p_sunat), <<<<n_query, v_78>>>>),
      Input(RouteOf(p_osiptel), <<<<n_dni, <<>>>>, <<n_query, v_78>>>>),
      Input(RouteOf(p_dni_nombres), <<<<n_apepaterno, v_a>>, <<n_apematerno, v_b>>>>) }

\* Every route called without any of its parameters, or with them empty.
InvalidInputs ==
    {Input(r, <<>>) : r \in Routes}
        \cup {Input(r, [i \in 1..Len(r.names) |-> <<r.names[i], <<>>>>]) : r \in Routes}
        \cup {Input(RouteOf(p_dni_nombres), <<<<n_apepaterno, v_a>>>>)}

Inputs == ValidInputs \cup InvalidInputs

\* The readings of the clock a step can make: time has passed or not.
ClockReads == {t \in {now, now + 1} : t <= MaxClock}

\* ----------------------------------------------------------- the handlers

\* res.status(status).json(body)
respond(q, status, body) ==
    [q EXCEPT !.status = status, !.body = body, !.sent = @ + 1, !.pc = "done"]

\* Mutant: the GET is attempted twice.
issueGet_twice(q) ==
    [q EXCEPT !.pc = "fetching", !.gets = @ + 2,
              !.url = <<q.route.apiPath, q.params>>,
              !.hist = @ \o <<"CACHE_MISS", "UPSTREAM_FETCH">>]

\* axios.get(url, { timeout: 30000 }): the handler suspends on the upstream GET
issueGet(q) ==
    [q EXCEPT !.pc = "fetching", !.gets = @ + 1,
              !.url = <<q.route.apiPath, q.params>>,
              !.hist = @ \o <<"CACHE_MISS", "UPSTREAM_FETCH">>]

\* Mutant: the hit branch does not return, the coordinator goes on to step 2.
afterLookup_noReturn(q, cachedResult) ==
    IF cachedResult # NoBody
    THEN issueGet(respond([q EXCEPT !.cachedResult = cachedResult,
                                    !.hist = @ \o <<"CACHE_HIT">>], 200, cachedResult))
    ELSE issueGet(q)

\* Mutant: the hit is answered and the cached value is scheduled for saving again.
afterLookup_repersist(q, cachedResult) ==
    IF cachedResult # NoBody
    THEN respond([q EXCEPT !.cachedResult = cachedResult, !.persist = "scheduled",
                           !.resultData = cachedResult.value,
                           !.hist = @ \o <<"CACHE_HIT">>], 200, cachedResult)
    ELSE issueGet(q)

\* if (cachedResult) return res.status(200).json(cachedResult); else step 2
afterLookup(q, cachedResult) ==
    IF cachedResult # NoBody
    THEN respond([q EXCEPT !.cachedResult = cachedResult,
                           !.hist = @ \o <<"CACHE_HIT">>], 200, cachedResult)
    ELSE issueGet(q)

\* Mutant: the store is listed whether or not there is a store handle.
startLookup_noGuard(q, hasBucket) ==
    [q EXCEPT !.pc = "listing", !.listings = @ + 1, !.hist = @ \o <<"CACHE_CHECK">>]

\* Step 1 of the coordinator: if (bucket) await checkStorageCache(...) suspends
\* on bucket.getFiles; without a bucket the lookup is skipped.
startLookup(q, hasBucket) ==
    IF hasBucket
    THEN [q EXCEPT !.pc = "listing", !.listings = @ + 1,
                   !.hist = @ \o <<"CACHE_CHECK">>]
    ELSE afterLookup([q EXCEPT !.hist = @ \o <<"CACHE_CHECK">>], NoBody)

\* A route handler from the arrival of the request to its first await.
arrive(in, hasBucket) ==
    LET v == validate(in.route, in.query)
        q == [IdleRequest EXCEPT !.route = in.route, !.query = in.query,
                                 !.handler = in.route.handler]
    IN  IF ~v.ok THEN respond(q, 400, RejectBody(v.message))
        ELSE startLookup([q EXCEPT !.paramName = v.paramName,
                                   !.paramValue = v.paramValue,
                                   !.params = v.params,
                                   !.hist = <<"START">>], hasBucket)

\* Mutant: the listing error is not caught and reaches the client as a 500.
onListingError_surfaced(q) ==
    respond([q EXCEPT !.storeError = "listing"], 500,
            RejectBody(Msg("Error interno del servidor", <<>>, <<>>, 0)))

\* checkStorageCache, catch (error): a failed listing gives null
onListingError(q) == afterLookup([q EXCEPT !.storeError = "listing"], NoBody)

\* checkStorageCache from the answer of bucket.getFiles to latestFile.download()
onListing(q, listed, latestFile) ==
    IF matchingFiles(listed, q.paramValue) = {}
    THEN afterLookup(q, NoBody)
    ELSE [q EXCEPT !.pc = "downloading", !.downloads = @ + 1,
                   !.latestFile = latestFile.name]

\* Mutant: a failed download of the cached object is attempted once more.
onDownloadError_retry(q) ==
    IF q.downloads < 2 THEN [q EXCEPT !.downloads = @ + 1]
    ELSE afterLookup([q EXCEPT !.storeError = "download"], NoBody)

\* checkStorageCache, catch (parseError): a failed download gives null
onDownloadError(q) == afterLookup([q EXCEPT !.storeError = "download"], NoBody)

\* checkStorageCache from the answer of latestFile.download() on
onDownload(q, contentString) ==
    afterLookup([q EXCEPT !.storeError =
                    IF decode(contentString, q.latestFile) = NoBody THEN "parse" ELSE @],
                decode(contentString, q.latestFile))

\* The error response of handleWithCache
errorBody(q, err) ==
    Body("error", NoVal, errorMessageOf(err), detalleOf(err), <<>>, <<>>,
         q.route.path, <<q.paramName, q.paramValue>>,
         {"success", "message", "detalle", "endpoint", "param"})

\* The error response of fetchFromNewAPIWithMultipleParams
errorBodyMultipleParams(q, err) ==
    Body("error", NoVal, Msg("Error en la consulta", <<>>, <<>>, 0), detalleOf(err),
         <<>>, <<>>, <<>>, <<>>, {"success", "message", "detalle"})

\* Mutant: the payload of the error reply is scheduled for saving.
fetchError_persist(q, err) ==
    LET q1 == [q EXCEPT !.reply = err, !.hist = @ \o <<"FETCH_ERROR">>,
                        !.resultData = err.data, !.persist = "scheduled"]
    IN  IF q.handler = "MultipleParams"
        THEN respond(q1, statusCodeOfMultipleParams(err), errorBodyMultipleParams(q, err))
        ELSE respond(q1, statusCodeOf(err), errorBody(q, err))

\* catch (err) of the coordinator
fetchError(q, err) ==
    LET q1 == [q EXCEPT !.reply = err, !.hist = @ \o <<"FETCH_ERROR">>]
    IN  IF q.handler = "MultipleParams"
        THEN respond(q1, statusCodeOfMultipleParams(err), errorBodyMultipleParams(q, err))
        ELSE respond(q1, statusCodeOf(err), errorBody(q, err))

\* Mutant: the coordinator awaits the save before it answers.
fetchOk_awaitSave(q, reply, hasBucket) ==
    IF hasBucket
    THEN [q EXCEPT !.reply = reply, !.resultData = reply.data, !.pc = "persisting",
                   !.persist = "scheduled", !.hist = @ \o <<"FETCH_OK">>]
    ELSE respond([q EXCEPT !.reply = reply, !.resultData = reply.data,
                           !.hist = @ \o <<"FETCH_OK">>], 200, ValueBody(reply.data))

\* The coordinator after a 2xx reply: setTimeout(persist, 100) when there is a
\* bucket, then res.status(200).json(resultData)
fetchOk(q, reply, hasBucket) ==
    respond([q EXCEPT !.reply = reply, !.resultData = reply.data,
                      !.persist = IF hasBucket THEN "scheduled" ELSE "none",
                      !.hist = @ \o <<"FETCH_OK">>],
            200, ValueBody(reply.data))

\* The coordinator from the answer of axios.get on
onReply(q, reply, hasBucket) ==
    IF reply.kind = "ok" THEN fetchOk(q, reply, hasBucket) ELSE fetchError(q, reply)

\* The timer callback up to its first await: saveTextToStorage suspends on
\* file.save, saveMediaFromUrl on the download of the URL.
planOf(q) ==
    IF q.handler = "MultipleParams" THEN classifyMultipleParams(q.resultData)
    ELSE classify(q.resultData)

timerFired(q, timestamp) ==
    LET plan == planOf(q)
    IN  CASE plan.kind = "text" ->
               [q EXCEPT !.persist = "saving", !.plan = "text", !.puts = @ + 1,
                         !.filePath = generateStoragePath(q.route.path, q.paramName,
                                                          q.paramValue, timestamp),
                         !.content = textContent(plan.data),
                         !.contentType = "application/json"]
          [] plan.kind \in {"image", "pdf"} ->
               [q EXCEPT !.persist = "downloading", !.plan = plan.kind,
                         !.mediaGets = @ + 1,
                         !.filePath = generateMediaPath(q.route.path, q.paramName,
                                          q.paramValue, mediaExtension(plan.data.s),
                                          timestamp),
                         !.contentType = mediaContentType(plan.data.s, plan.kind)]
          [] OTHER -> [q EXCEPT !.persist = "skipped", !.plan = "nothing"]

\* saveMediaFromUrl from the answer of the download to file.save
onMedia(q, bytes, header) ==
    [q EXCEPT !.persist = "saving", !.puts = @ + 1, !.content = bytes,
              !.contentType = IF header # "" THEN header ELSE @]

\* Mutant: a failed download leaves an empty object in the store.
onMediaError_savesEmpty(q) ==
    [q EXCEPT !.persist = "saving", !.puts = @ + 1, !.content = <<>>]

\* saveMediaFromUrl, catch (downloadError): return null
onMediaError(q) == [q EXCEPT !.persist = "failed"]

\* file.save resolved: the function returns filePath
onSaved(q) == [q EXCEPT !.persist = "saved"]

\* Mutant: a failed save rewrites the status of the response.
onSaveError_surfaced(q) == [q EXCEPT !.persist = "failed", !.status = 500]

\* file.save rejected: catch (error), return null
onSaveError(q) == [q EXCEPT !.persist = "failed"]

\* What file.save leaves in the store: the object replaces one of the same name.
stored(fs, q, timeCreated) ==
    {f \in fs : f.name # q.filePath}
        \cup {File(q.filePath, timeCreated, q.content, q.contentType)}

\* ----------------------------------------------------------------- actions

Init ==
    /\ bucket \in BOOLEAN
    /\ files = {}
    /\ now = 0
    /\ req = [r \in Requests |-> IdleRequest]

\* A request arrives; requests are numbered in their order of arrival.
Arrive(r) ==
    /\ req[r].pc = "idle"
    /\ \A p \in Requests : p < r => req[p].pc # "idle"
    /\ \E in \in Inputs : req' = [req EXCEPT ![r] = arrive(in, bucket)]
    /\ UNCHANGED <<bucket, files, now>>

\* The store answers bucket.getFiles.
ListReturn(r) ==
    /\ req[r].pc = "listing"
    /\ LET q == [req[r] EXCEPT !.storeHadMatch =
                    IF matchingFiles({f \in files :
                                        startsWith(f.name, cachePrefix(req[r].route.path))},
                                     req[r].paramValue) # {}
                    THEN "yes" ELSE "no"]
       IN  \E listed \in Listings(files, cachePrefix(q.route.path)) :
             IF matchingFiles(listed, q.paramValue) = {}
             THEN req' = [req EXCEPT ![r] = onListing(q, listed, File(<<>>, 0, <<>>, ""))]
             ELSE \E f \in latestFiles(matchingFiles(listed, q.paramValue)) :
                     req' = [req EXCEPT ![r] = onListing(q, listed, f)]
    /\ UNCHANGED <<bucket, files, now>>

\* bucket.getFiles fails.
ListFail(r) ==
    /\ req[r].pc = "listing"
    /\ LET q == [req[r] EXCEPT !.storeHadMatch =
                    IF matchingFiles({f \in files :
                                        startsWith(f.name, cachePrefix(req[r].route.path))},
                                     req[r].paramValue) # {}
                    THEN "yes" ELSE "no"]
       IN  req' = [req EXCEPT ![r] = onListingError(q)]
    /\ UNCHANGED <<bucket, files, now>>

\* The store answers latestFile.download().
DownloadReturn(r) ==
    /\ req[r].pc = "downloading"
    /\ \E f \in files :
        /\ f.name = req[r].latestFile
        /\ req' = [req EXCEPT ![r] = onDownload(req[r], f.content)]
    /\ UNCHANGED <<bucket, files, now>>

\* latestFile.download() fails.
DownloadFail(r) ==
    /\ req[r].pc = "downloading"
    /\ req' = [req EXCEPT ![r] = onDownloadError(req[r])]
    /\ UNCHANGED <<bucket, files, now>>

\* The upstream API answers the GET, or the GET fails.
UpstreamReturn(r) ==
    /\ req[r].pc = "fetching"
    /\ \E reply \in UpstreamReplies :
          req' = [req EXCEPT ![r] = onReply(req[r], reply, bucket)]
    /\ UNCHANGED <<bucket, files, now>>

\* The timer set by the coordinator fires.
TimerFire(r) ==
    /\ req[r].persist = "scheduled"
    /\ \E t \in ClockReads :
        /\ now' = t
        /\ req' = [req EXCEPT ![r] = timerFired(req[r], t)]
    /\ UNCHANGED <<bucket, files>>

\* The download of the medium answers with a 2xx status.
MediaReturn(r) ==
    /\ req[r].persist = "downloading"
    /\ \E header \in {"", "application/octet-stream"} :
          req' = [req EXCEPT ![r] = onMedia(req[r], MediaBytes, header)]
    /\ UNCHANGED <<bucket, files, now>>

\* The download of the medium fails: timeout, other status, or too large.
MediaFail(r) ==
    /\ req[r].persist = "downloading"
    /\ req' = [req EXCEPT ![r] = onMediaError(req[r])]
    /\ UNCHANGED <<bucket, files, now>>

\* Mutant: the payload to save is kept in one place for all requests, and the
\* write stores what the request that came last left there.
PutReturn_shared(r) ==
    /\ req[r].persist = "saving"
    /\ \E t \in ClockReads :
        /\ now' = t
        /\ LET last == CHOOSE p \in Requests :
                          /\ req[p].content # <<>>
                          /\ \A o \in Requests : req[o].content # <<>> => o <= p
           IN  files' = stored(files, [req[r] EXCEPT !.content = req[last].content], t)
        /\ req' = [req EXCEPT ![r] = onSaved(req[r])]
    /\ UNCHANGED bucket

\* The store completes file.save.
PutReturn(r) ==
    /\ req[r].persist = "saving"
    /\ \E t \in ClockReads :
        /\ now' = t
        /\ files' = stored(files, req[r], t)
        /\ req' = [req EXCEPT ![r] = onSaved(req[r])]
    /\ UNCHANGED bucket

\* file.save fails.
PutFail(r) ==
    /\ req[r].persist = "saving"
    /\ req' = [req EXCEPT ![r] = onSaveError(req[r])]
    /\ UNCHANGED <<bucket, files, now>>

Next ==
    \E r \in Requests :
        \/ Arrive(r)
        \/ ListReturn(r)
        \/ ListFail(r)
        \/ DownloadReturn(r)
        \/ DownloadFail(r)
        \/ UpstreamReturn(r)
        \/ TimerFire(r)
        \/ MediaReturn(r)
        \/ MediaFail(r)
        \/ PutReturn(r)
        \/ PutFail(r)

Spec == Init /\ [][Next]_vars

\* Fairness: axios.get carries timeout: 30000, so every upstream GET ends in a
\* reply or an error, and a timer that was set fires. The code sets no limit on
\* bucket.getFiles, latestFile.download() or file.save: nothing says the store
\* answers them.
FairSpec ==
    /\ Spec
    /\ \A r \in Requests : WF_vars(UpstreamReturn(r)) /\ WF_vars(TimerFire(r))

\* --------------------------------------------------- second specification
\*
\* The same handlers on a store that earlier requests have filled, with a
\* parameter value that holds a space and with upstream results of every kind
\* the timer callback tells apart.

\* A family name of two words.
v_a_c == <<"a", " ", "c">>

\* What saveTextToStorage has left in the store for earlier requests of /dni,
\* maxResults objects in all: one for each of other DNIs (101, 102, ...) and
\* two for DNI 78, the one keyed first (at 0) written last (at 2).
OtherObjects ==
    { File(generateStoragePath(p_dni, n_dni, numToString(100 + i), 0), 0,
           textContent(JObj(<<"n">>, <<"a", "n", "a">>)), "application/json") :
        i \in 1..(maxResults - 2) }

EarlierObjects ==
    { File(generateStoragePath(p_dni, n_dni, v_78, 0), 2,
           textContent(JObj(<<"n">>, <<"a", "n", "a">>)), "application/json"),
      File(generateStoragePath(p_dni, n_dni, v_78, 1), 1,
           textContent(JArr(<<"a">>)), "application/json") }

KeyInputs ==
    { Input(RouteOf(p_dni), <<<<n_dni, v_78>>>>),
      Input(RouteOf(p_dni_nombres), <<<<n_apepaterno, v_a_c>>, <<n_apematerno, v_b>>>>) }

KeyReplies == {Reply("ok", 200, d, "") : d \in KeyResults}

KeyInit ==
    /\ bucket = TRUE
    /\ files = OtherObjects \cup EarlierObjects
    /\ now = 2
    /\ req = [r \in Requests |-> IdleRequest]

\* A request arrives.
ArriveKey(r) ==
    /\ req[r].pc = "idle"
    /\ \A p \in Requests : p < r => req[p].pc # "idle"
    /\ \E in \in KeyInputs : req' = [req EXCEPT ![r] = arrive(in, bucket)]
    /\ UNCHANGED <<bucket, files, now>>

\* The upstream API answers the GET.
UpstreamReturnKey(r) ==
    /\ req[r].pc = "fetching"
    /\ \E reply \in KeyReplies :
          req' = [req EXCEPT ![r] = onReply(req[r], reply, bucket)]
    /\ UNCHANGED <<bucket, files, now>>

KeyNext ==
    \E r \in Requests :
        \/ ArriveKey(r)
        \/ ListReturn(r)
        \/ ListFail(r)
        \/ DownloadReturn(r)
        \/ DownloadFail(r)
        \/ UpstreamReturnKey(r)
        \/ TimerFire(r)
        \/ MediaReturn(r)
        \/ MediaFail(r)
        \/ PutReturn(r)
        \/ PutFail(r)

KeySpec == KeyInit /\ [][KeyNext]_vars

\* ---------------------------------------------------- third specification
\*
\* The cached routes together with the bulk-clear endpoint, on a store that
\* holds objects of earlier requests; parameter values that are part of
\* another key or of a stored value, and two routes one of whose names starts
\* with the other's.

\* The names of the objects of a store.
Names(fs) == {f.name : f \in fs}

\* The index of the first "/" of s, 0 when it has none.
indexOfSlash(s) ==
    IF \E i \in 1..Len(s) : s[i] = "/"
    THEN CHOOSE i \in 1..Len(s) : s[i] = "/" /\ \A j \in 1..(i - 1) : s[j] # "/"
    ELSE 0

\* file.name.split('/')[1]: the directory of the object below consultas/,
\* empty when the name has no "/".
endpointOf(name) ==
    LET i    == indexOfSlash(name)
        rest == SubSeq(name, i + 1, Len(name))
        j    == indexOfSlash(rest)
    IN  IF i = 0 THEN <<>>
        ELSE IF j = 0 THEN rest
        ELSE SubSeq(rest, 1, j - 1)

\* const batchSize = 100
batchSize == 100

p_clear == <<"/", "s", "t", "o", "r", "a", "g", "e", "/", "c", "l", "e", "a", "r">>

\* app.delete("/storage/clear")
ClearRoute == Route(p_clear, <<>>, "clear", <<>>)

\* { success: true, message, deleted } and, after deletes, timestamp
ClearBody(id, n) ==
    [deleted |-> n] @@
    Body("cleared", NoVal, Msg(id, <<>>, <<>>, 0), NoDetalle, <<>>, <<>>, <<>>, <<>>,
         IF n = 0 THEN {"success", "message", "deleted"}
         ELSE {"success", "message", "deleted", "timestamp"})

\* files.slice(i, i + batchSize), the listing taken as a set
batches(todo) ==
    IF Cardinality(todo) <= batchSize THEN {todo}
    ELSE {b \in SUBSET todo : Cardinality(b) = batchSize}

\* The head of the for loop: the deletes of the next batch are issued at once
\* (Promise.all), or the loop is over and the handler answers.
nextBatch(q, batch) ==
    IF q.todo = {}
    THEN respond(q, 200, ClearBody("Cache limpiado exitosamente", q.deleted))
    ELSE [q EXCEPT !.pc = "deleting", !.batch = batch, !.pending = batch,
                   !.todo = @ \ batch]

\* The handler up to its await of bucket.getFiles({ prefix: 'consultas/' })
arriveClear(hasBucket) ==
    LET q == [IdleRequest EXCEPT !.route = ClearRoute, !.handler = "clear"]
    IN  IF ~hasBucket
        THEN respond(q, 500,
                     RejectBody(Msg("Firebase Storage no esta configurado", <<>>, <<>>, 0)))
        ELSE [q EXCEPT !.pc = "clearListing", !.listings = @ + 1]

\* The handler from the answer of bucket.getFiles to the first batch
onClearListing(q, listed, batch) ==
    IF listed = {}
    THEN respond(q, 200, ClearBody("No hay archivos en cache para eliminar", 0))
    ELSE nextBatch([q EXCEPT !.listed = listed, !.todo = listed], batch)

\* catch (error): { success: false, message: "Error al limpiar cache", error }
onClearError(q) ==
    respond(q, 500,
            Body("error", NoVal, Msg("Error al limpiar cache", <<>>, <<>>, 0), NoDetalle,
                 <<>>, <<>>, <<>>, <<>>, {"success", "message", "error"}))

\* One file.delete() resolved; when it is the last of its batch, Promise.all
\* resolves, deletedCount += batch.length and the loop goes on. After a
\* rejection the handler has answered and the delete changes nothing of it.
onDeleted(q, name, batch) ==
    LET q1 == [q EXCEPT !.pending = @ \ {name}]
    IN  IF q.pc = "deleting" /\ q1.pending = {}
        THEN nextBatch([q1 EXCEPT !.deleted = @ + Cardinality(q.batch)], batch)
        ELSE q1

\* Mutant: a rejected delete is taken for a resolved one.
onDeleteError_ignored(q, name) == onDeleted(q, name, q.todo)

\* One file.delete() rejected: Promise.all rejects at the first rejection and
\* the handler answers 500; the other deletes of the batch stay in flight.
onDeleteError(q, name) ==
    LET q1 == [q EXCEPT !.pending = @ \ {name}]
    IN  IF q.pc = "deleting" THEN onClearError(q1) ELSE q1

\* bucket.getFiles({ prefix: 'consultas/', maxResults: 1000 })
statsMaxResults == 1000

p_stats == <<"/", "s", "t", "o", "r", "a", "g", "e", "/", "s", "t", "a", "t", "s">>

\* app.get("/storage/stats")
StatsRoute == Route(p_stats, <<>>, "stats", <<>>)

FileTypes == {"json", "images", "pdfs", "other"}

\* Mutant: an object under media/ is counted as a type of its own.
fileType_media(fileName) ==
    LET name == toLowerCase(fileName)
    IN  IF includes(name, <<"/">> \o s_media) THEN "media"
        ELSE IF endsWith(name, <<".">> \o s_json) THEN "json"
        ELSE "other"

\* The branch of the if chain on file.name.toLowerCase() that counts the object
fileType(fileName) ==
    LET name == toLowerCase(fileName)
    IN  IF endsWith(name, <<".">> \o s_json) THEN "json"
        ELSE IF \E e \in ImageExtensions : endsWith(name, <<".">> \o e) THEN "images"
        ELSE IF endsWith(name, <<".">> \o s_pdf) THEN "pdfs"
        ELSE "other"

\* One turn of files.forEach: the counter of the type of the object goes up by
\* one, and (pathParts.length > 1) the counter of its pathParts[1] too
countFile(stats, name) ==
    LET ty == fileType(name)
        e  == endpointOf(name)
        byEndpoint ==
            IF indexOfSlash(name) = 0 THEN stats.endpoints
            ELSE IF e \in DOMAIN stats.endpoints
                 THEN [stats.endpoints EXCEPT ![e] = @ + 1]
                 ELSE stats.endpoints @@ (e :> 1)
    IN  [stats EXCEPT !.byType = [x \in DOMAIN @ |-> IF x = ty THEN @[x] + 1 ELSE @[x]],
                      !.endpoints = byEndpoint]

RECURSIVE forEachFile(_, _)
forEachFile(stats, rest) ==
    IF rest = {} THEN stats
    ELSE LET name == CHOOSE n \in rest : TRUE
         IN  forEachFile(countFile(stats, name), rest \ {name})

\* stats: totalFiles: files.length, endpoints: {}, byType with its four
\* counters at 0, then files.forEach
Stats(listed) ==
    forEachFile([totalFiles |-> Cardinality(listed),
                 endpoints  |-> <<>>,
                 byType     |-> [ty \in FileTypes |-> 0]],
                listed)

\* { success: true, stats, bucket, firebaseConfigured, timestamp, memoryUsage }
StatsBody(listed) ==
    [stats |-> Stats(listed)] @@
    Body("stats", NoVal, NoMsg, NoDetalle, <<>>, <<>>, <<>>, <<>>,
         {"success", "stats", "bucket", "firebaseConfigured", "timestamp", "memoryUsage"})

\* The handler up to its await of bucket.getFiles
arriveStats(hasBucket) ==
    LET q == [IdleRequest EXCEPT !.route = StatsRoute, !.handler = "stats"]
    IN  IF ~hasBucket
        THEN respond(q, 500,
                     Body("error", NoVal,
                          Msg("Firebase Storage no esta configurado", <<>>, <<>>, 0),
                          NoDetalle, <<>>, <<>>, <<>>, <<>>,
                          {"success", "message", "configured", "error"}))
        ELSE [q EXCEPT !.pc = "statsListing", !.listings = @ + 1]

\* The handler from the answer of bucket.getFiles to res.json
onStatsListing(q, listed) ==
    respond([q EXCEPT !.listed = listed], 200, StatsBody(listed))

\* catch (error): { success: false, message, error, configured: true }
onStatsError(q) ==
    respond(q, 500,
            Body("error", NoVal, Msg("Error al obtener estadisticas", <<>>, <<>>, 0),
                 NoDetalle, <<>>, <<>>, <<>>, <<>>,
                 {"success", "message", "error", "configured"}))

v_7  == <<"7">>
v_an == <<"a", "n">>

\* What earlier requests for DNI 78 on /dni and for RUC 78 on /sunat have left
\* in the store.
StoredObjects ==
    { File(generateStoragePath(p_dni, n_dni, v_78, 0), 0,
           textContent(JObj(<<"n">>, <<"a", "n", "a">>)), "application/json"),
      File(generateStoragePath(p_sunat, n_dni_o_ruc, v_78, 0), 0,
           textContent(JArr(<<"a">>)), "application/json") }

StoreInputs ==
    { Input(RouteOf(p_dni), <<<<n_dni, v_78>>>>),
      Input(RouteOf(p_dni), <<<<n_dni, v_7>>>>),
      Input(RouteOf(p_dni), <<<<n_dni, v_an>>>>),
      Input(RouteOf(p_sun), <<<<n_query, v_78>>>>),
      Input(RouteOf(p_sun), <<<<n_dni_o_ruc, v_78>>, <<n_query, v_7>>>>),
      Input(RouteOf(p_pasaporte), <<<<n_dni, v_78>>, <<n_pasaporte, v_7>>>>),
      Input(RouteOf(p_fisdet), <<<<n_distritojudicial, v_78>>, <<n_query, v_7>>>>) }

\* The upstream answers with an object or with the URL of an image.
StoreReplies ==
    {Reply("ok", 200, d, "") : d \in {JObj(<<"n">>, <<"a", "n", "a">>), JStr(url_png)}}

StoreInit ==
    /\ bucket \in BOOLEAN
    /\ files = StoredObjects
    /\ now = 0
    /\ req = [r \in Requests |-> IdleRequest]

\* A request arrives: a GET of a cached route, DELETE /storage/clear or
\* GET /storage/stats.
ArriveStore(r) ==
    /\ req[r].pc = "idle"
    /\ \A p \in Requests : p < r => req[p].pc # "idle"
    /\ \/ \E in \in StoreInputs : req' = [req EXCEPT ![r] = arrive(in, bucket)]
       \/ req' = [req EXCEPT ![r] = arriveClear(bucket)]
       \/ req' = [req EXCEPT ![r] = arriveStats(bucket)]
    /\ UNCHANGED <<bucket, files, now>>

\* The upstream API answers the GET.
UpstreamReturnStore(r) ==
    /\ req[r].pc = "fetching"
    /\ \E reply \in StoreReplies :
          req' = [req EXCEPT ![r] = onReply(req[r], reply, bucket)]
    /\ UNCHANGED <<bucket, files, now>>

\* The store answers bucket.getFiles({ prefix: 'consultas/' }): no maxResults,
\* every object under the prefix is listed.
ClearListReturn(r) ==
    /\ req[r].pc = "clearListing"
    /\ LET listed == {f.name : f \in {g \in files : startsWith(g.name, s_consultas)}}
       IN  \E batch \in batches(listed) :
              req' = [req EXCEPT ![r] = onClearListing(req[r], listed, batch)]
    /\ UNCHANGED <<bucket, files, now>>

\* bucket.getFiles fails.
ClearListFail(r) ==
    /\ req[r].pc = "clearListing"
    /\ req' = [req EXCEPT ![r] = onClearError(req[r])]
    /\ UNCHANGED <<bucket, files, now>>

\* The store completes one file.delete(): the object is gone.
DeleteReturn(r) ==
    /\ \E name \in req[r].pending :
        /\ \E f \in files : f.name = name
        /\ files' = {f \in files : f.name # name}
        /\ \E batch \in batches(req[r].todo) :
              req' = [req EXCEPT ![r] = onDeleted(req[r], name, batch)]
    /\ UNCHANGED <<bucket, now>>

\* One file.delete() fails: the store refuses, or the object is no longer there.
DeleteFail(r) ==
    /\ \E name \in req[r].pending :
          req' = [req EXCEPT ![r] = onDeleteError(req[r], name)]
    /\ UNCHANGED <<bucket, files, now>>

\* The store answers the listing of the statistics: the objects under
\* consultas/, at most statsMaxResults of them.
StatsListReturn(r) ==
    /\ req[r].pc = "statsListing"
    /\ LET under == {f \in files : startsWith(f.name, s_consultas)}
       IN  \E listed \in without(under, Cardinality(under) - statsMaxResults) :
              req' = [req EXCEPT ![r] = onStatsListing(req[r], Names(listed))]
    /\ UNCHANGED <<bucket, files, now>>

\* The listing of the statistics fails.
StatsListFail(r) ==
    /\ req[r].pc = "statsListing"
    /\ req' = [req EXCEPT ![r] = onStatsError(req[r])]
    /\ UNCHANGED <<bucket, files, now>>

StoreNext ==
    \E r \in Requests :
        \/ ArriveStore(r)
        \/ ListReturn(r)
        \/ ListFail(r)
        \/ DownloadReturn(r)
        \/ DownloadFail(r)
        \/ UpstreamReturnStore(r)
        \/ TimerFire(r)
        \/ MediaReturn(r)
        \/ MediaFail(r)
        \/ PutReturn(r)
        \/ PutFail(r)
        \/ ClearListReturn(r)
        \/ ClearListFail(r)
        \/ DeleteReturn(r)
        \/ DeleteFail(r)
        \/ StatsListReturn(r)
        \/ StatsListFail(r)

StoreSpec == StoreInit /\ [][StoreNext]_vars

\* ------------------------------------------------------------ vocabulary

\* The request passed the checks of its route handler and entered the coordinator.
Validated(q) == q.hist # <<>>

\* The coordinator has been through state s for the request.
Visited(q, s) == \E i \in 1..Len(q.hist) : q.hist[i] = s

\* The request has been answered.
Answered(q) == q.pc = "done"

\* The lookup of the request has returned.
LookedUp(q) == Validated(q) /\ q.pc \in {"fetching", "done"}

\* Every parameter the route accepts is absent from the URL or empty.
AllMissing(q) == \A i \in 1..Len(q.route.names) : falsy(q.query[q.route.names[i]])

\* Calls a request has made to the store or to the upstream API.
NoExternalCall(q) ==
    q.listings = 0 /\ q.downloads = 0 /\ q.gets = 0 /\ q.mediaGets = 0 /\ q.puts = 0

\* --------------------------------------------------------------- claim C1

\* C1, as stated: a validated request makes no upstream GET when an object
\* matching it is in the store at the time of the lookup, and exactly one when
\* none is.
C1_GetsByStoreContent ==
    \A r \in Requests :
        LET q == req[r]
        IN  LookedUp(q) =>
              /\ q.storeHadMatch = "yes" => q.gets = 0
              /\ q.storeHadMatch = "no" => q.gets = 1

\* C1, amended: a validated request makes exactly one upstream GET when its
\* lookup returned absent (no matching object at lookup time, a failed listing
\* or download, a payload that does not decode, or no store handle) and none
\* when the lookup returned an object; it makes none while the lookup runs and
\* never more than one.
C1_GetsByLookupResult ==
    \A r \in Requests :
        LET q == req[r]
        IN  Validated(q) =>
              /\ q.gets <= 1
              /\ q.pc \in {"listing", "downloading"} => q.gets = 0
              /\ LookedUp(q) /\ q.cachedResult # NoBody =>
                    q.gets = 0 /\ q.storeHadMatch = "yes"
              /\ LookedUp(q) /\ q.cachedResult = NoBody => q.gets = 1
              /\ LookedUp(q) /\ q.storeHadMatch = "no" => q.gets = 1
              /\ LookedUp(q) /\ q.gets = 1 /\ q.storeHadMatch = "yes" =>
                    q.storeError # "none"

\* A multi-parameter request answered from the store without a GET, after a
\* request that found the store without a match and made one GET.
C1_Witness ==
    \E r1, r2 \in Requests :
        /\ Answered(req[r1]) /\ req[r1].storeHadMatch = "no" /\ req[r1].gets = 1
        /\ Answered(req[r2]) /\ req[r2].handler = "MultipleParams"
        /\ req[r2].cachedResult # NoBody /\ req[r2].gets = 0

\* --------------------------------------------------------------- claim C2

CoordinatorPaths ==
    { <<"START", "CACHE_CHECK", "CACHE_HIT">>,
      <<"START", "CACHE_CHECK", "CACHE_MISS", "UPSTREAM_FETCH", "FETCH_OK">>,
      <<"START", "CACHE_CHECK", "CACHE_MISS", "UPSTREAM_FETCH", "FETCH_ERROR">> }

TerminalStates == {"CACHE_HIT", "FETCH_OK", "FETCH_ERROR"}

IsPrefix(s, u) == Len(s) <= Len(u) /\ SubSeq(u, 1, Len(s)) = s

\* The states a validated request has been through are the start of one path.
C2_OnPath ==
    \A r \in Requests :
        LET q == req[r]
        IN  Validated(q) =>
              /\ \E path \in CoordinatorPaths : IsPrefix(q.hist, path)
              /\ q.gets > 0 => Visited(q, "CACHE_MISS") /\ q.cachedResult = NoBody
              /\ q.sent <= 1
              /\ q.sent = 1 <=> q.hist[Len(q.hist)] \in TerminalStates
              /\ Answered(q) <=> q.sent = 1

\* A step only extends the states of a request, and the step that issues the
\* GET is the one in which the lookup returns (or is skipped for want of a
\* store handle).
C2_Steps ==
    \A r \in Requests :
        /\ IsPrefix(req[r].hist, req'[r].hist)
        /\ req'[r].sent >= req[r].sent
        /\ req'[r].gets > req[r].gets =>
              \/ req[r].pc \in {"listing", "downloading"}
              \/ req[r].pc = "idle" /\ ~bucket

\* C2: a validated request moves only along START -> CACHE_CHECK -> (CACHE_HIT |
\* CACHE_MISS -> UPSTREAM_FETCH -> (FETCH_OK | FETCH_ERROR)); the GET is not
\* issued before the lookup has returned absent; the request ends in one
\* terminal state and is answered exactly once, there.
C2_StateMachine == []C2_OnPath /\ [][C2_Steps]_vars

\* The three terminal states have been reached, by different requests or runs.
C2_Witness ==
    \E r1, r2 \in Requests :
        /\ Visited(req[r1], "FETCH_OK") /\ req[r1].sent = 1
        /\ Visited(req[r2], "CACHE_HIT") /\ req[r2].sent = 1

\* --------------------------------------------------------------- claim C3

\* The timer callback of the request has started: it has run, or a call it
\* made is in flight.
PersistStarted(q) ==
    q.persist \in {"downloading", "saving", "saved", "failed", "skipped"}
        \/ q.puts > 0 \/ q.mediaGets > 0

\* Whenever a persist task exists for a request, scheduled or further, the
\* request has its 200 response with the raw upstream result.
C3_AnsweredBeforePersist ==
    \A r \in Requests :
        LET q == req[r]
        IN  /\ (q.persist # "none" \/ PersistStarted(q)) =>
                  q.sent = 1 /\ q.status = 200 /\ q.body = ValueBody(q.reply.data)
            /\ Visited(q, "FETCH_OK") => q.sent = 1

\* The step that takes a request to FETCH_OK sends the response and starts no
\* part of the persist task; the response is sent in the step that receives
\* the upstream reply.
C3_RespondsAtOnce ==
    \A r \in Requests :
        (~Visited(req[r], "FETCH_OK") /\ Visited(req'[r], "FETCH_OK")) =>
            /\ req[r].pc = "fetching" /\ req'[r].sent = 1 /\ req'[r].pc = "done"
            /\ ~PersistStarted(req'[r])
            /\ files' = files

\* C3: a request that reaches FETCH_OK has its 200 response with the raw
\* upstream result sent before its persist task begins any store write, and
\* the response does not wait for the persist task.
C3_ResponseFirst == []C3_AnsweredBeforePersist /\ [][C3_RespondsAtOnce]_vars

\* A request answered 200 whose store write is in flight, after the download
\* of a medium.
C3_Witness ==
    \E r \in Requests :
        /\ req[r].persist = "saving" /\ req[r].plan = "image"
        /\ req[r].sent = 1 /\ req[r].status = 200

\* --------------------------------------------------------------- claim C4

\* A request at CACHE_HIT has status 200 and the cached value as its body, has
\* made no upstream call, has no persist task and has written nothing.
C4_HitState ==
    \A r \in Requests :
        LET q == req[r]
        IN  Visited(q, "CACHE_HIT") =>
              /\ q.sent = 1 /\ q.status = 200
              /\ q.body = q.cachedResult /\ q.body.form \in {"value", "wrapper"}
              /\ q.gets = 0 /\ q.persist = "none" /\ q.puts = 0 /\ q.mediaGets = 0

\* The step that answers from the store leaves the store as it is and sends
\* what the selected object decodes to; no later step of that request writes.
C4_HitStep ==
    \A r \in Requests :
        /\ (~Visited(req[r], "CACHE_HIT") /\ Visited(req'[r], "CACHE_HIT")) =>
              /\ files' = files
              /\ \E f \in files :
                    /\ f.name = req[r].latestFile
                    /\ req'[r].body = decode(f.content, f.name)
        /\ Visited(req[r], "CACHE_HIT") => req'[r] = req[r]

\* C4: a request that ends in CACHE_HIT answers 200 with the cached value and
\* leaves the store unchanged: no persist task, no write, no delete, no
\* upstream call.
C4_HitLeavesStore == []C4_HitState /\ [][C4_HitStep]_vars

\* A hit on a stored object, the store holding it still.
C4_Witness ==
    \E r \in Requests :
        /\ Visited(req[r], "CACHE_HIT")
        /\ \E f \in files : f.name = req[r].latestFile

\* --------------------------------------------------------------- claim C5

\* C5: on every route, a request whose acceptable parameters are all missing
\* or empty is answered 400 with a message that names the required
\* parameters, and makes no store listing, read or write and no upstream GET.
C5_MissingParams ==
    \A r \in Requests :
        LET q == req[r]
        IN  (q.pc # "idle" /\ AllMissing(q)) =>
              /\ Answered(q) /\ q.sent = 1 /\ q.status = 400
              /\ q.body.form = "error" /\ ~success(q.body)
              /\ q.body.message.names = q.route.names
              /\ ~Validated(q) /\ NoExternalCall(q) /\ q.persist = "none"

\* The multi-parameter route called without parameters and a DNI route called
\* with an empty dni, both answered 400, the store handle being present.
C5_Witness ==
    /\ req[1].status = 400 /\ req[1].route.handler = "MultipleParams"
    /\ req[2].status = 400 /\ req[2].route.handler = "dniEndpoints"
    /\ req[2].query[n_dni] = <<>>
    /\ bucket

\* --------------------------------------------------------------- claim C6

\* The listing or the download of the lookup failed.
StoreFailed(q) == q.storeError \in {"listing", "download"}

\* The listing succeeded and held no object matching the request.
SawNoMatch(q) ==
    q.storeHadMatch = "no" /\ q.storeError = "none" /\ q.downloads = 0 /\ q.listings = 1

\* C6: when the listing or the download of the selected object fails, the
\* lookup yields absent, the request makes exactly one upstream GET, and its
\* response is the one a request with the same parameters and the same
\* upstream reply gets when the store holds nothing for it; nothing of the
\* store error is in the response.
C6_StoreFailureIsMiss ==
    \A r1 \in Requests :
        LET q == req[r1]
        IN  StoreFailed(q) =>
              /\ q.cachedResult = NoBody /\ LookedUp(q) /\ q.gets = 1
              /\ Visited(q, "CACHE_MISS") /\ ~Visited(q, "CACHE_HIT")
              /\ Answered(q) =>
                    /\ q.sent = 1 /\ q.body.form \in {"value", "error"}
                    /\ q.body.storageReference = <<>>
                    /\ q.reply.kind = "ok" => q.status = 200
                    /\ \A r2 \in Requests :
                          (/\ Answered(req[r2]) /\ SawNoMatch(req[r2])
                           /\ req[r2].route = q.route /\ req[r2].query = q.query
                           /\ req[r2].reply = q.reply) =>
                              /\ req[r2].status = q.status
                              /\ req[r2].body = q.body

\* Two requests with the same parameters and upstream reply, one whose
\* download failed and one that listed a store without a match.
C6_Witness ==
    \E r1, r2 \in Requests :
        /\ Answered(req[r1]) /\ req[r1].storeError = "download"
        /\ Answered(req[r2]) /\ SawNoMatch(req[r2])
        /\ req[r2].route = req[r1].route /\ req[r2].query = req[r1].query
        /\ req[r2].reply = req[r1].reply /\ req[r1].reply.kind = "ok"

\* --------------------------------------------------------------- claim C7

\* C7, as stated: every validated request is answered in the end, whatever the
\* store does, provided the upstream GET answers or times out.
C7_EveryRequestAnswered ==
    \A r \in Requests : Validated(req[r]) ~> Answered(req[r])

\* --------------------------------------------------------------- claim C8

\* A request at FETCH_OK has its 200 response with the raw upstream result,
\* wherever its persist task stands.
C8_ResponseOfFetchOk ==
    \A r \in Requests :
        LET q == req[r]
        IN  Visited(q, "FETCH_OK") =>
              /\ q.sent = 1 /\ q.status = 200 /\ q.body = ValueBody(q.reply.data)
              /\ q.persist \in {"none", "scheduled", "downloading", "saving", "saved",
                                "failed", "skipped"}

\* A step of a persist task changes the response of no request.
C8_PersistStep ==
    \A r \in Requests :
        (req[r].persist # "none" /\ req'[r].persist # req[r].persist) =>
            \A p \in Requests :
                /\ req'[p].status = req[p].status
                /\ req'[p].body = req[p].body
                /\ req'[p].sent = req[p].sent

\* C8: the status and body of the response of a request that reached FETCH_OK
\* are the same whether its persist task succeeds, fails in the store write,
\* fails in the download of the medium or never runs; no persistence error
\* reaches a client.
C8_PersistInvisible == []C8_ResponseOfFetchOk /\ [][C8_PersistStep]_vars

\* Two answered requests with the same upstream reply, the store write of one
\* failed and that of the other done.
C8_Witness ==
    \E r1, r2 \in Requests :
        /\ req[r1].persist = "failed" /\ req[r1].puts = 1
        /\ req[r2].persist = "saved"
        /\ req[r1].reply = req[r2].reply
        /\ req[r1].body = req[r2].body /\ req[r1].status = 200 /\ req[r2].status = 200

\* --------------------------------------------------------------- claim C9

\* What C9 and its amendment share: a non-2xx reply with status s is answered
\* with status s, success false, and the upstream payload in detalle when the
\* upstream sent one.
C9_HttpError(q) ==
    q.reply.kind = "http" =>
        /\ q.status = q.reply.status
        /\ q.body.form = "error" /\ ~success(q.body)
        /\ "success" \in q.body.fields /\ "detalle" \in q.body.fields
        /\ truthy(q.reply.data) => q.body.detalle = Detalle("data", q.reply.data, NoMsg)
        /\ ~truthy(q.reply.data) =>
              q.body.detalle = Detalle("message", NoVal, errMessage(q.reply))

\* C9, as stated: status s, success false and the upstream payload in detalle
\* for a reply with status s; 500 when the failure carries no status.
C9_ErrorAsStated ==
    \A r \in Requests :
        LET q == req[r]
        IN  Visited(q, "FETCH_ERROR") =>
              /\ C9_HttpError(q)
              /\ q.reply.kind = "transport" => q.status = 500

\* C9, amended: status s, success false and the upstream payload in detalle
\* (the text of the error when the payload is empty) for a reply with status
\* s; 500 when the failure carries no status and is neither a timeout nor an
\* unresolved host.
C9_ErrorResponse ==
    \A r \in Requests :
        LET q == req[r]
        IN  Visited(q, "FETCH_ERROR") =>
              /\ Answered(q) /\ q.sent = 1
              /\ C9_HttpError(q)
              /\ (q.reply.kind = "transport"
                    /\ q.reply.code \notin {"ECONNABORTED", "ENOTFOUND"}) =>
                    /\ q.status = 500
                    /\ q.body.form = "error"
                    /\ q.body.detalle = Detalle("message", NoVal, errMessage(q.reply))

\* A 404 with a payload answered on the multi-parameter route, and a refused
\* connection answered on another.
C9_Witness ==
    \E r1, r2 \in Requests :
        /\ req[r1].handler = "MultipleParams" /\ req[r1].status = 404
        /\ req[r1].body.detalle.from = "data"
        /\ req[r2].handler # "MultipleParams" /\ req[r2].reply.code = "ECONNREFUSED"
        /\ req[r2].status = 500

\* -------------------------------------------------------------- claim C10

\* C10, as stated: on every route a GET that times out is answered 504 and a
\* GET whose host cannot be resolved is answered 503.
C10_TransportStatus ==
    \A r \in Requests :
        LET q == req[r]
        IN  (Answered(q) /\ q.reply.kind = "transport") =>
              /\ q.reply.code = "ECONNABORTED" => q.status = 504
              /\ q.reply.code = "ENOTFOUND" => q.status = 503

\* -------------------------------------------------------------- claim C11

\* The upstream result is a map or an array.
Structured(v) == v.t \in {"obj", "arr"}

\* The request has persisted a structured result through saveTextToStorage
\* and the object it wrote is in the store as written.
PersistedJson(q) ==
    /\ q.persist = "saved" /\ q.plan = "text" /\ Structured(q.resultData)
    /\ \E f \in files : f.name = q.filePath /\ f.content = q.content

\* The store holds no more objects under the prefix of the route than one
\* listing returns.
ListingComplete(q) ==
    Cardinality({f \in files : startsWith(f.name, cachePrefix(q.route.path))}) <= maxResults

\* The listing of a request that follows the persist of a structured result
\* for the same route and parameters selects an object.
C11_Found ==
    \A r1, r2 \in Requests :
        (/\ req[r2].pc = "listing" /\ req'[r2].pc # "listing"
         /\ req'[r2].storeError = "none" /\ ListingComplete(req[r2])
         /\ req[r1].route = req[r2].route /\ req[r1].query = req[r2].query
         /\ PersistedJson(req[r1])) =>
            req'[r2].pc = "downloading"

\* The object a request wrote for a structured result decodes to that result.
C11_Decoded ==
    \A r1, r2 \in Requests :
        (/\ req[r2].pc = "downloading" /\ req'[r2].pc # "downloading"
         /\ req'[r2].storeError = "none"
         /\ req[r1].route = req[r2].route /\ req[r1].query = req[r2].query
         /\ PersistedJson(req[r1]) /\ req[r1].filePath = req[r2].latestFile) =>
            req'[r2].cachedResult = ValueBody(req[r1].resultData)

\* C11, as stated: for every route and every parameter value, whatever its
\* characters, a map or an array persisted through the JSON path and then
\* looked up with the same route and parameter value is found, and decodes to
\* a value equal to the original.
C11_RoundTrip == [][C11_Found /\ C11_Decoded]_vars

\* -------------------------------------------------------------- claim C12

\* The step completes a store write of request r.
Persists(r) == req[r].persist = "saving" /\ req'[r].persist = "saved"

\* A completed write adds one object and leaves every stored object as it was.
C12_PersistStep ==
    \A r \in Requests :
        Persists(r) =>
            /\ \A f \in files : f \in files'
            /\ Cardinality(files') = Cardinality(files) + 1

\* A listing selects, among the objects under the prefix that match the
\* request, one with the latest creation time.
C12_LatestSelected ==
    \A r \in Requests :
        (req[r].pc = "listing" /\ req'[r].pc = "downloading") =>
            \E f \in files :
                /\ f.name = req'[r].latestFile
                /\ \A g \in matchingFiles({h \in files :
                                              startsWith(h.name, cachePrefix(req[r].route.path))},
                                          req[r].paramValue) :
                      g.timeCreated <= f.timeCreated

\* C12, as stated: two persists under the same logical request, whatever their
\* timing, leave two distinct objects; no persist overwrites or changes a
\* stored object, the number of objects grows by one with each successful
\* persist, and a lookup after both returns the one created last.
C12_DistinctObjects == [][C12_PersistStep /\ C12_LatestSelected]_vars

\* -------------------------------------------------------------- claim C13

\* The objects of the store under the prefix of the route of a request.
UnderPrefix(q) == {f \in files : startsWith(f.name, cachePrefix(q.route.path))}

\* The step in which the listing of request r returns.
Listed(r) ==
    req[r].pc = "listing" /\ req'[r].pc # "listing" /\ req'[r].storeError = "none"

\* C13, as stated: the lookup returns the object with the latest creation time
\* the store recorded among all the objects of the store under the route
\* prefix that match paramValue, however many objects the store holds there
\* (and absent only when none matches).
C13_LatestOfStore ==
    [][\A r \in Requests :
          Listed(r) =>
            LET M == matchingFiles(UnderPrefix(req[r]), req[r].paramValue)
            IN  IF M = {} THEN req'[r].pc = "fetching"
                ELSE /\ req'[r].pc = "downloading"
                     /\ \E f \in M :
                          /\ f.name = req'[r].latestFile
                          /\ \A g \in M : g.timeCreated <= f.timeCreated]_vars

\* The number of objects under the prefix that a listing leaves out.
LeftOut(q) ==
    IF Cardinality(UnderPrefix(q)) > maxResults
    THEN Cardinality(UnderPrefix(q)) - maxResults ELSE 0

\* C13, amended: the lookup returns the object with the latest creation time
\* the store recorded among the matching objects that the listing of the route
\* prefix returned. The listing returns at most 50 objects: a matching object
\* is passed over, for an older one or for absent, only when the store holds
\* more than 50 objects under the prefix, and no more matching objects are
\* passed over than the listing left out.
C13_LatestOfListing ==
    [][\A r \in Requests :
          Listed(r) =>
            LET M == matchingFiles(UnderPrefix(req[r]), req[r].paramValue)
            IN  IF req'[r].pc = "downloading"
                THEN \E f \in M :
                        /\ f.name = req'[r].latestFile
                        /\ Cardinality({g \in M : g.timeCreated > f.timeCreated})
                              <= LeftOut(req[r])
                ELSE /\ req'[r].pc = "fetching"
                     /\ Cardinality(M) <= LeftOut(req[r])]_vars

\* A lookup over more than 50 objects under the prefix has selected one, and
\* another lookup has selected, of the two earlier objects, the one written
\* last, whose key holds the smaller timestamp.
C13_Witness ==
    \E r1, r2 \in Requests :
        /\ req[r1].downloads = 1 /\ Cardinality(UnderPrefix(req[r1])) > maxResults
        /\ req[r1].hist = <<"START", "CACHE_CHECK">>
        /\ req[r2].latestFile = generateStoragePath(p_dni, n_dni, v_78, 0)

\* -------------------------------------------------------------- claim C14

\* A persist task that has come to its end without a failure of the store or
\* of the download has written the result, whatever its type: none ends
\* without a write.
C14_PersistEnds ==
    \A r \in Requests :
        LET q == req[r]
        IN  (/\ Visited(q, "FETCH_OK") /\ bucket
             /\ q.persist \notin {"scheduled", "downloading", "saving", "failed"}) =>
                /\ q.persist = "saved"
                /\ \E f \in files : f.name = q.filePath

\* A lookup that runs after the persist of an identical request has completed,
\* and meets no failure of the store, ends in CACHE_HIT without a GET. (What a
\* request holds from its arrival to the answer of its listing does not depend
\* on when it arrived: the lookups that run after the persist are those of the
\* requests handled after it.)
C14_Reuse ==
    \A r1, r2 \in Requests :
        (/\ r1 # r2 /\ req[r1].persist = "saved"
         /\ req[r1].route = req[r2].route /\ req[r1].query = req[r2].query) =>
            /\ Listed(r2) => req'[r2].pc = "downloading"
            /\ (/\ req[r2].pc = "downloading" /\ req'[r2].pc # "downloading"
                /\ req'[r2].storeError # "download") =>
                  /\ Visited(req'[r2], "CACHE_HIT") /\ req'[r2].gets = 0

\* C14, as stated: whenever a validated request reaches FETCH_OK with the store
\* available and no store failure, its result is persisted in the end,
\* whatever its type, and every identical request handled after that persist
\* ends in CACHE_HIT without an upstream GET.
C14_FutureReuse == []C14_PersistEnds /\ [][C14_Reuse]_vars

\* The second half of C14 alone.
C14_ReuseAlone == [][C14_Reuse]_vars

\* -------------------------------------------------------------- claim C15

\* The result of the request is a string that starts with http.
HttpString(q) == q.resultData.t = "str" /\ startsWith(q.resultData.s, <<"h", "t", "t", "p">>)

\* The image extension that the lowercased result matches.
MatchedImage(q) ==
    {e \in ImageExtensions :
        \/ endsWith(toLowerCase(q.resultData.s), <<".">> \o e)
        \/ includes(toLowerCase(q.resultData.s), <<".">> \o e \o <<"?">>)}

\* The MIME type of an extension.
MimeOf(e) ==
    CASE e \in {s_jpg, s_jpeg} -> "image/jpeg"
      [] e = s_png  -> "image/png"
      [] e = s_gif  -> "image/gif"
      [] e = s_webp -> "image/webp"
      [] e = s_pdf  -> "application/pdf"

\* The persist task of the request has gone past its first step.
PersistRan(q) == q.persist \notin {"none", "scheduled"}

\* The persist task has downloaded the URL and handed the bytes to the store
\* under the media key with extension e and the MIME type of e.
StoredAsMedia(q, e) ==
    /\ q.mediaGets = 1
    /\ q.persist \in {"saving", "saved"} =>
          /\ \E t \in 0..MaxClock :
                q.filePath = generateMediaPath(q.route.path, q.paramName, q.paramValue, e, t)
          /\ q.contentType = MimeOf(e)
          /\ q.content = MediaBytes

\* C15, as stated: a string result that starts with http and matches an image
\* extension is downloaded and stored under the media key with exactly that
\* extension and its MIME type; one that matches .pdf instead is stored with
\* extension pdf and MIME application/pdf.
C15_MediaByExtension ==
    \A r \in Requests :
        LET q == req[r]
        IN  (HttpString(q) /\ PersistRan(q)) =>
              /\ \A e \in MatchedImage(q) : StoredAsMedia(q, e)
              /\ (MatchedImage(q) = {}
                    /\ includes(toLowerCase(q.resultData.s), <<".">> \o s_pdf)) =>
                    StoredAsMedia(q, s_pdf)

\* -------------------------------------------------------------- claim C16

\* What the classification rules of C16 store for a result: the result itself
\* for a map or an array, {url: result} for a string that starts with http and
\* is neither an image nor a PDF, {text: result} for any other string.
StoredJson(q) ==
    IF Structured(q.resultData) THEN q.resultData
    ELSE IF HttpString(q) THEN JObj(s_url, q.resultData.s)
    ELSE JObj(s_text, q.resultData.s)

\* The rules of C16 apply to the result: it is a map, an array, or a string
\* that is not the URL of an image or of a PDF.
StoredAsJson(q) ==
    \/ Structured(q.resultData)
    \/ /\ q.resultData.t = "str"
       /\ HttpString(q) =>
            /\ MatchedImage(q) = {}
            /\ ~includes(toLowerCase(q.resultData.s), <<".">> \o s_pdf)

\* The writes of a persist task that has ended: one when it succeeded.
C16_OneWrite ==
    \A r \in Requests :
        LET q == req[r]
        IN  /\ q.puts <= 1
            /\ q.persist = "saved" => q.puts = 1
            /\ (PersistRan(q) /\ q.persist # "failed" /\ q.mediaGets = 0) => q.puts = 1

\* C16, as stated: on every route the persist task stores a map or an array as
\* its JSON under the JSON key, a string that starts with http and is neither
\* an image nor a PDF as the JSON of {url: result}, any other string as the
\* JSON of {text: result}; a persist task writes exactly one object.
C16_Classification ==
    \A r \in Requests :
        LET q == req[r]
        IN  /\ (PersistRan(q) /\ StoredAsJson(q)) =>
                  /\ q.plan = "text" /\ q.mediaGets = 0
                  /\ q.content = JSONstringify(StoredJson(q))
                  /\ \E t \in 0..MaxClock :
                        q.filePath = generateStoragePath(q.route.path, q.paramName,
                                                         q.paramValue, t)
            /\ C16_OneWrite

\* -------------------------------------------------------------- claim C17

\* The step in which the download of the medium of request r fails.
MediaFails(r) == req[r].persist = "downloading" /\ req'[r].persist # "downloading"
                    /\ req'[r].puts = req[r].puts

\* The download of the medium of the request has failed.
MediaFailed(q) == q.persist = "failed" /\ q.mediaGets > 0 /\ q.puts = 0

\* The failing download writes nothing, starts no other download, and changes
\* nothing of any request but the state of the persist task.
C17_FailStep ==
    \A r \in Requests :
        MediaFails(r) =>
            /\ files' = files
            /\ req'[r] = [req[r] EXCEPT !.persist = "failed"]
            /\ \A p \in Requests : p # r => req'[p] = req[p]

\* After the failure the persist task does nothing more.
C17_Failed ==
    \A r \in Requests : MediaFailed(req[r]) => req'[r] = req[r]

\* After a failed download: one download, no write, and the 200 response with
\* the upstream result. A media task writes only the bytes of a download that
\* succeeded.
C17_State ==
    \A r \in Requests :
        LET q == req[r]
        IN  /\ MediaFailed(q) =>
                  /\ q.mediaGets = 1 /\ q.puts = 0
                  /\ q.sent = 1 /\ q.status = 200 /\ q.body = ValueBody(q.reply.data)
            /\ (q.plan \in {"image", "pdf"} /\ q.puts > 0) =>
                  q.mediaGets = 1 /\ q.content = MediaBytes

\* C17: when the download of a medium fails, the persist task writes no
\* object, makes no second download, and the failure reaches neither the
\* response of its request nor any other request.
C17_MediaFailure == []C17_State /\ [][C17_FailStep /\ C17_Failed]_vars

\* A failed download of an image beside a second request that has been
\* answered since.
C17_Witness ==
    \E r1, r2 \in Requests :
        /\ MediaFailed(req[r1]) /\ req[r1].plan = "image"
        /\ req[r2].sent = 1 /\ req[r2].status = 200 /\ req[r2].persist = "saved"

\* -------------------------------------------------------------- claim C18

\* C18: no operation is retried: whatever fails, a request causes at most one
\* store listing, one download of a cached object, one upstream GET, one
\* download of a medium and one store put.
C18_NoRetry ==
    \A r \in Requests :
        LET q == req[r]
        IN  /\ q.listings <= 1 /\ q.downloads <= 1 /\ q.gets <= 1
            /\ q.mediaGets <= 1 /\ q.puts <= 1
            /\ q.sent <= 1

\* A request whose cached-object download failed, whose GET was answered with
\* the URL of an image, and whose store put failed after the download of the
\* image: each operation once.
C18_Witness ==
    \E r \in Requests :
        /\ req[r].storeError = "download" /\ req[r].persist = "failed"
        /\ req[r].listings = 1 /\ req[r].downloads = 1 /\ req[r].gets = 1
        /\ req[r].mediaGets = 1 /\ req[r].puts = 1

\* -------------------------------------------------------------- claim C19

\* The names the route requires joined with _, and their values joined with _
\* in the order of declaration.
CompositeName(q)  == join(q.route.names, <<"_">>)
CompositeValue(q) == join([i \in 1..Len(q.route.names) |-> q.query[q.route.names[i]]], <<"_">>)

\* The parameters of the request one by one, each with its own name and value.
OwnParams(q) == [i \in 1..Len(q.route.names) |-> <<q.route.names[i], q.query[q.route.names[i]]>>]

\* On the multi-parameter route the key of the persisted object holds the
\* composite name and value, and the GET carries the parameters one by one.
C19_KeyAndUrl ==
    \A r \in Requests :
        LET q == req[r]
        IN  (q.handler = "MultipleParams" /\ Validated(q)) =>
              /\ q.gets > 0 =>
                    /\ q.url = <<q.route.apiPath, OwnParams(q)>>
                    /\ \A i \in 1..Len(q.url[2]) :
                          /\ q.url[2][i][1] # CompositeName(q)
                          /\ q.url[2][i][2] # CompositeValue(q)
              /\ q.persist \in {"saving", "saved"} =>
                    \E t \in 0..MaxClock :
                        q.filePath = generateStoragePath(q.route.path, CompositeName(q),
                                                         CompositeValue(q), t)

\* On the multi-parameter route the lookup selects an object exactly when one
\* under the prefix holds the composite value in its name.
C19_Lookup ==
    \A r \in Requests :
        (req[r].handler = "MultipleParams" /\ Listed(r)) =>
            (req'[r].pc = "downloading"
                <=> matchingFiles(UnderPrefix(req[r]), CompositeValue(req[r])) # {})

\* C19: on a multi-parameter route the cache lookup and the persisted key use
\* the composite paramName and paramValue, and the upstream GET carries each
\* parameter with its own name and value, never the composite.
C19_Composite == []C19_KeyAndUrl /\ [][C19_Lookup]_vars

\* A multi-parameter request answered from the object that another one
\* persisted under the composite key after its GET.
C19_Witness ==
    \E r1, r2 \in Requests :
        /\ req[r1].handler = "MultipleParams" /\ req[r1].persist = "saved"
        /\ req[r1].gets = 1
        /\ req[r2].handler = "MultipleParams" /\ Visited(req[r2], "CACHE_HIT")
        /\ req[r2].latestFile = req[r1].filePath

\* -------------------------------------------------------------- claim C20

\* The request as the handlers leave it when the store handle is present, the
\* listing returns no object and the upstream gives the same reply.
OnEmptyStore(q) ==
    onReply(onListing(arrive([route |-> q.route, query |-> q.query], TRUE), {},
                      File(<<>>, 0, <<>>, "")),
            q.reply, TRUE)

\* Without a store handle a validated request lists nothing, reads nothing,
\* schedules no persist, makes one GET, and is answered as on an empty store;
\* the store stays empty.
C20_NoStore ==
    ~bucket =>
        /\ files = {}
        /\ \A r \in Requests :
              LET q == req[r]
              IN  Validated(q) =>
                    /\ q.listings = 0 /\ q.downloads = 0
                    /\ q.persist = "none" /\ q.puts = 0 /\ q.mediaGets = 0
                    /\ q.pc \in {"fetching", "done"} /\ q.gets = 1
                    /\ q.cachedResult = NoBody
                    /\ Answered(q) =>
                          /\ q.sent = 1
                          /\ q.status = OnEmptyStore(q).status
                          /\ q.body = OnEmptyStore(q).body

\* C20: degraded mode. When the store handle is absent every validated request
\* performs no store listing and no store read, schedules no persist, issues
\* exactly one upstream GET and receives the response it would receive with an
\* available, empty store; the handle never changes after start-up.
C20_Degraded == []C20_NoStore /\ [][bucket' = bucket]_vars

\* Without a store handle, one request answered 200 and one answered with the
\* upstream's error.
C20_Witness ==
    /\ ~bucket
    /\ \E r1, r2 \in Requests :
          /\ Visited(req[r1], "FETCH_OK") /\ req[r1].status = 200
          /\ Visited(req[r2], "FETCH_ERROR") /\ req[r2].status = 404


\* -------------------------------------------------------------- claim C21

\* The payload of the object the lookup of request r selected.
SelectedPayload(r) == (CHOOSE f \in files : f.name = req[r].latestFile).content

\* The step in which latestFile.download() answers request r.
Downloaded(r) ==
    /\ req[r].pc = "downloading" /\ req'[r].pc # "downloading"
    /\ req'[r].storeError # "download"

\* C21, as stated: when the payload of the latest matching object cannot be
\* decoded as structured data, the lookup neither throws nor reports absent:
\* it returns a hit that carries the raw payload and the marker of cached
\* content, for every payload that does not decode.
C21_OpaqueHit ==
    [][\A r \in Requests :
          (Downloaded(r) /\ ~parses(SelectedPayload(r))) =>
              /\ req'[r].cachedResult =
                    WrapperBody(SelectedPayload(r), req[r].latestFile)
              /\ Visited(req'[r], "CACHE_HIT")
              /\ req'[r].status = 200 /\ req'[r].body = req'[r].cachedResult]_vars

\* The part of C21 the code keeps: a payload that does not start with { or [
\* is returned raw with the marker.
C21_OpaqueHitOfText ==
    [][\A r \in Requests :
          (/\ Downloaded(r) /\ ~parses(SelectedPayload(r))
           /\ ~startsWith(trim(SelectedPayload(r)), <<"{">>)
           /\ ~startsWith(trim(SelectedPayload(r)), <<"[">>)) =>
              /\ req'[r].cachedResult =
                    WrapperBody(SelectedPayload(r), req[r].latestFile)
              /\ Visited(req'[r], "CACHE_HIT")
              /\ req'[r].status = 200 /\ req'[r].body = req'[r].cachedResult]_vars


\* -------------------------------------------------------------- claim C22

\* The key holds the value as a case-insensitive substring.
KeyHolds(name, v) == includes(toLowerCase(name), toLowerCase(v))

\* A listing selects an object whenever a key under the prefix of the route
\* holds the value of the request, whatever value the object was persisted for.
C22_Selects ==
    \A r \in Requests :
        Listed(r) =>
            LET K == {f \in UnderPrefix(req[r]) : KeyHolds(f.name, req[r].paramValue)}
            IN  K # {} =>
                  /\ req'[r].pc = "downloading"
                  /\ \E f \in K : f.name = req'[r].latestFile

\* The request is answered with what the selected object decodes to.
C22_Answers ==
    \A r \in Requests :
        (Downloaded(r) /\ parses(SelectedPayload(r))) =>
            /\ Visited(req'[r], "CACHE_HIT") /\ req'[r].status = 200
            /\ req'[r].body = ValueBody(JSONparse(SelectedPayload(r)))

\* C22: loose match. A request for value v is answered from the store with an
\* object persisted for another value w of the same route whenever v is a
\* case-insensitive substring of the key of that object: the lookup selects
\* an object by that test alone and answers with its payload.
C22_LooseMatch == [][C22_Selects /\ C22_Answers]_vars

\* A request for DNI 7 ended in CACHE_HIT with the object another request of
\* the run persisted for DNI 78, and is answered with the result of that one.
C22_Witness ==
    \E p, r \in Requests :
        /\ req[p].persist = "saved" /\ req[p].paramValue = v_78
        /\ req[r].paramValue = v_7 /\ req[r].route = req[p].route
        /\ Visited(req[r], "CACHE_HIT") /\ req[r].gets = 0
        /\ req[r].latestFile = req[p].filePath
        /\ req[r].body = ValueBody(req[p].resultData)


\* -------------------------------------------------------------- claim C23

\* No two routes share a directory, and no directory is the start of another.
C23_Directories ==
    \A a, b \in CachedRoutePaths :
        a # b =>
            /\ safeEndpoint(a) # safeEndpoint(b)
            /\ cachePrefix(a) # cachePrefix(b)
            /\ ~startsWith(cachePrefix(a), cachePrefix(b))

\* The object a lookup selects lies in the directory of the route of the
\* request, and no object written for a request of another route does.
C23_OwnObjects ==
    \A r \in Requests :
        LET q == req[r]
        IN  (Validated(q) /\ q.handler # "clear") =>
              /\ q.latestFile # <<>> =>
                    endpointOf(q.latestFile) = safeEndpoint(q.route.path)
              /\ \A p \in Requests :
                    (req[p].filePath # <<>> /\ req[p].route.path # q.route.path) =>
                        /\ endpointOf(req[p].filePath) # safeEndpoint(q.route.path)
                        /\ q.latestFile # req[p].filePath

\* C23: the directories consultas/<route>/ of two different configured routes
\* are different and neither is the start of the other, so a lookup on one
\* route neither lists nor returns an object persisted by another route.
C23_RouteDirectories == C23_Directories /\ C23_OwnObjects

\* A request for RUC 78 on /sun listed the store without a match and went to
\* the upstream while the store held the object of /sunat for RUC 78, and a
\* request on /dni has written an object.
C23_Witness ==
    \E r, p \in Requests :
        /\ req[r].route.path = p_sun /\ SawNoMatch(req[r]) /\ req[r].gets = 1
        /\ \E f \in files :
              /\ endpointOf(f.name) = safeEndpoint(p_sunat)
              /\ KeyHolds(f.name, req[r].paramValue)
        /\ req[p].route.path = p_dni /\ req[p].persist = "saved"


\* -------------------------------------------------------------- claim C24

\* The request is one of the bulk-clear endpoint.
IsClear(q) == q.handler = "clear"

\* A step after which a name of the store is gone is the resolved delete of a
\* bulk-clear request, and the name is the one that delete was issued for.
C24_OnlyClearRemoves ==
    (Names(files) \ Names(files') # {}) =>
        \E r \in Requests :
            /\ IsClear(req[r])
            /\ req'[r].pending # req[r].pending
            /\ Names(files) \ Names(files') = req[r].pending \ req'[r].pending

\* The steps of a bulk-clear request: without a store handle it is answered
\* 500 in the step of its arrival, with no call; its listing holds every
\* object under consultas/; a name leaves the deletes in flight, while the
\* handler waits, at the deletion of the object or at the 500 answer.
C24_ClearSteps ==
    \A r \in Requests :
        /\ (req[r].pc = "idle" /\ IsClear(req'[r]) /\ ~bucket) =>
              /\ req'[r].status = 500 /\ ~success(req'[r].body)
              /\ NoExternalCall(req'[r]) /\ req'[r].pending = {}
              /\ files' = files
        /\ (req[r].pc = "clearListing" /\ req'[r].pc = "deleting") =>
              /\ req'[r].listed = Names({f \in files : startsWith(f.name, s_consultas)})
              /\ req'[r].pending = req'[r].listed /\ req'[r].deleted = 0
        /\ (req[r].pc = "clearListing" /\ req'[r].status = 200) =>
              /\ Names({f \in files : startsWith(f.name, s_consultas)}) = {}
              /\ req'[r].body.deleted = 0
        /\ (req[r].pc = "deleting" /\ req'[r].pending # req[r].pending) =>
              \/ req'[r].status = 500
              \/ /\ req[r].pending \ req'[r].pending \subseteq Names(files)
                 /\ (req[r].pending \ req'[r].pending) \cap Names(files') = {}
        /\ IsClear(req[r]) => req'[r].listed \in {req[r].listed, Names(files)}

\* A bulk-clear answered with success has no delete left to issue or in
\* flight and reports as deleted the number of objects it listed; one
\* answered 500 for want of a store handle has made no call.
C24_ClearAnswer ==
    \A r \in Requests :
        LET q == req[r]
        IN  (IsClear(q) /\ Answered(q)) =>
              /\ q.status \in {200, 500} /\ q.sent = 1
              /\ q.status = 200 =>
                    /\ success(q.body) /\ q.pending = {} /\ q.todo = {}
                    /\ q.body.deleted = Cardinality(q.listed)
                    /\ q.deleted = Cardinality(q.listed)
              /\ ~bucket => q.status = 500 /\ NoExternalCall(q)

\* C24: stored objects are removed by no operation other than the bulk-clear
\* endpoint; a bulk-clear that answers success has deleted every object that
\* was under consultas/ when it listed them and reports a deleted count equal
\* to that number (0 when none exist); it is answered 500 without touching
\* the store when the store handle is absent.
C24_BulkClear == []C24_ClearAnswer /\ [][C24_OnlyClearRemoves /\ C24_ClearSteps]_vars

\* A bulk-clear answered with success after the deletion of three objects, one
\* of them written by the other request of the run; the store is empty.
C24_Witness ==
    \E r, p \in Requests :
        /\ IsClear(req[r]) /\ req[r].status = 200 /\ req[r].body.deleted = 3
        /\ req[p].persist = "saved" /\ req[p].filePath \in req[r].listed
        /\ files = {}


\* -------------------------------------------------------------- claim C25

\* What the route handler derives from the URL of the request itself.
OwnValidation(q) == validate(q.route, q.query)

\* The key of the request is derived from its own route and parameters.
OwnKey(q) ==
    \E t \in 0..MaxClock :
        \/ q.filePath = generateStoragePath(q.route.path, OwnValidation(q).paramName,
                                            OwnValidation(q).paramValue, t)
        \/ /\ q.resultData.t = "str"
           /\ q.filePath = generateMediaPath(q.route.path, OwnValidation(q).paramName,
                              OwnValidation(q).paramValue, mediaExtension(q.resultData.s), t)

\* A validated request makes at most one GET, with its own parameters; it is
\* answered from the reply to its own GET; the key and the payload of its
\* persist task come from its own parameters and its own result.
C25_OwnState ==
    \A r \in Requests :
        LET q == req[r]
        IN  (Validated(q) /\ ~IsClear(q)) =>
              /\ q.gets <= 1
              /\ q.paramName = OwnValidation(q).paramName
              /\ q.paramValue = OwnValidation(q).paramValue
              /\ q.gets = 1 => q.url = <<q.route.apiPath, OwnValidation(q).params>>
              /\ Visited(q, "FETCH_OK") =>
                    /\ q.reply.kind = "ok" /\ q.resultData = q.reply.data
                    /\ q.status = 200 /\ q.body = ValueBody(q.reply.data)
              /\ Visited(q, "FETCH_ERROR") =>
                    /\ q.reply.kind # "ok" /\ q.body.form = "error"
                    /\ q.body.detalle = detalleOf(q.reply)
              /\ q.filePath # <<>> => OwnKey(q)
              /\ (q.puts > 0 /\ q.plan = "text") =>
                    q.content = textContent(planOf(q).data)

\* A step is a step of one request and changes no other; a listing that holds
\* no match sends the request to the upstream whatever the others do; a write
\* stores the payload of the request that writes, under its key.
C25_OwnSteps ==
    \A r \in Requests :
        /\ req'[r] # req[r] => \A p \in Requests : p # r => req'[p] = req[p]
        /\ (Listed(r) /\ req[r].storeHadMatch = "no") =>
              req'[r].pc = "fetching" /\ req'[r].gets = 1
        /\ Persists(r) =>
              \E f \in files' : f.name = req[r].filePath /\ f.content = req[r].content

\* C25: concurrent identical requests against a store without a matching
\* object each miss on their own, make at most one GET each and are answered
\* from their own upstream reply; a response and a persisted key are never
\* built from the parameters or the result of another request in flight.
C25_Independent == []C25_OwnState /\ [][C25_OwnSteps]_vars

\* Two identical requests in flight together: both listed the store without
\* a match before either was answered, each made its GET, the replies differ,
\* each is answered with its own reply and each has written its own payload.
C25_Witness ==
    /\ req[1].route = req[2].route /\ req[1].query = req[2].query
    /\ SawNoMatch(req[1]) /\ SawNoMatch(req[2])
    /\ req[1].gets = 1 /\ req[2].gets = 1
    /\ req[1].reply.kind = "ok" /\ req[2].reply.kind = "ok"
    /\ req[1].reply # req[2].reply
    /\ req[1].body = ValueBody(req[1].reply.data)
    /\ req[2].body = ValueBody(req[2].reply.data)
    /\ req[1].persist = "saved" /\ req[2].persist = "saved"
    /\ req[1].content # req[2].content


\* -------------------------------------------------------------- claim C26

\* The stored value holds the value as a case-insensitive substring.
ValueHolds(content, v) == includes(toLowerCase(content), toLowerCase(v))

\* C26, as stated: the filter of the lookup keeps exactly the listed objects
\* whose key or whose stored value holds paramValue as a case-insensitive
\* substring; an object whose stored value holds it and whose key does not is
\* a match, so the lookup selects one of the objects kept and goes to the
\* upstream only when none is kept.
C26_KeyOrValue ==
    [][\A r \in Requests :
          Listed(r) =>
            LET kept == {f \in UnderPrefix(req[r]) :
                            \/ KeyHolds(f.name, req[r].paramValue)
                            \/ ValueHolds(f.content, req[r].paramValue)}
            IN  IF kept = {} THEN req'[r].pc = "fetching"
                ELSE /\ req'[r].pc = "downloading"
                     /\ req'[r].latestFile \in Names(kept)]_vars

\* What the code does: the filter keeps exactly the listed objects whose key
\* holds paramValue; the stored value is not read before the selection.
C26_KeyOnly ==
    [][\A r \in Requests :
          Listed(r) =>
            LET kept == {f \in UnderPrefix(req[r]) :
                            KeyHolds(f.name, req[r].paramValue)}
            IN  IF kept = {} THEN req'[r].pc = "fetching"
                ELSE /\ req'[r].pc = "downloading"
                     /\ req'[r].latestFile \in Names(kept)]_vars


\* -------------------------------------------------------------- claim C27

\* Request r2 was answered from the object that the completed persist task of
\* the identical request r1 wrote.
AnsweredFrom(r2, r1) ==
    /\ r1 # r2 /\ req[r1].persist = "saved" /\ Visited(req[r1], "FETCH_OK")
    /\ req[r1].route = req[r2].route /\ req[r1].query = req[r2].query
    /\ Visited(req[r2], "CACHE_HIT") /\ req[r2].latestFile = req[r1].filePath

\* C27, as stated: the client sees the same result on a hit as on the miss
\* that filled the cache. For every type of upstream result (structured
\* value, plain string, URL of a medium), an identical request answered from
\* the cache after the persist has completed receives status 200 and a body
\* equal to the body of the original response.
C27_SameBody ==
    \A r1, r2 \in Requests :
        AnsweredFrom(r2, r1) =>
            req[r2].status = 200 /\ req[r2].body = req[r1].body

\* The part of C27 the code keeps: the bodies are equal when the upstream
\* result is a map or an array.
C27_SameBodyStructured ==
    \A r1, r2 \in Requests :
        (AnsweredFrom(r2, r1) /\ Structured(req[r1].resultData)) =>
            req[r2].status = 200 /\ req[r2].body = req[r1].body


\* -------------------------------------------------------------- claim C28

\* A request at FETCH_ERROR has no persist task and has made no call of one;
\* the requests that have written are among those whose GET was answered 2xx,
\* each has written once, and the store holds no more objects than that.
C28_NoPersistOfError ==
    /\ \A r \in Requests :
          LET q == req[r]
          IN  /\ Visited(q, "FETCH_ERROR") =>
                    /\ q.persist = "none" /\ q.puts = 0 /\ q.mediaGets = 0
                    /\ q.filePath = <<>>
              /\ q.puts <= 1
              /\ (q.puts > 0 \/ q.persist # "none") =>
                    Visited(q, "FETCH_OK") /\ q.reply.kind = "ok" /\ q.gets = 1
    /\ Cardinality({r \in Requests : req[r].puts > 0})
          <= Cardinality({r \in Requests : req[r].reply.kind = "ok"})
    /\ Cardinality(files) <= Cardinality({r \in Requests : req[r].reply.kind = "ok"})

\* The step that takes a request to FETCH_ERROR leaves the store and every
\* persist task as they are; the store changes only in the write of the
\* persist task of a request that reached FETCH_OK.
C28_WriteSteps ==
    /\ \A r \in Requests :
          (~Visited(req[r], "FETCH_ERROR") /\ Visited(req'[r], "FETCH_ERROR")) =>
              /\ files' = files
              /\ \A p \in Requests : req'[p].persist = req[p].persist
    /\ files' # files =>
          \E r \in Requests : Persists(r) /\ Visited(req[r], "FETCH_OK")

\* C28: a request that ends in FETCH_ERROR schedules no persist task and leaves
\* the store unchanged; store writes happen only in persist tasks of requests
\* that reached FETCH_OK, so the number of objects ever written never exceeds
\* the number of successful upstream GETs.
C28_ErrorWritesNothing == []C28_NoPersistOfError /\ [][C28_WriteSteps]_vars

\* With the store available, a request answered with the error of a 404 reply
\* that carried a payload, and another whose result has been written: one
\* successful GET, one object.
C28_Witness ==
    \E r1, r2 \in Requests :
        /\ bucket /\ Visited(req[r1], "FETCH_ERROR") /\ req[r1].reply.status = 404
        /\ truthy(req[r1].reply.data) /\ Answered(req[r1])
        /\ req[r2].persist = "saved" /\ Cardinality(files) = 1


\* -------------------------------------------------------------- claim C29

\* The route with the leading / stripped and the remaining / replaced by _.
StrippedRoute(route) ==
    LET rest == IF Len(route) > 0 /\ route[1] = "/" THEN Tail(route) ELSE route
    IN  [i \in 1..Len(rest) |-> IF rest[i] = "/" THEN "_" ELSE rest[i]]

\* The value with every character outside [A-Za-z0-9] replaced by _.
ReplacedValue(v) == [i \in 1..Len(v) |-> IF v[i] \in AlnumChars THEN v[i] ELSE "_"]

\* consultas/<route>/<dir><paramName>_<paramValue>_<timestamp>.<extension>
KeyOfForm(route, dir, paramName, v, t, extension) ==
    <<"c", "o", "n", "s", "u", "l", "t", "a", "s", "/">> \o StrippedRoute(route)
        \o <<"/">> \o dir \o paramName \o <<"_">> \o ReplacedValue(v) \o <<"_">>
        \o numToString(t) \o <<".">> \o extension

\* Request paths, with a trailing and an inner /, and values with a space, a
\* dot, a slash, an underscore, a comma and upper-case letters.
C29_Paths == {p_dni, p_dni_nombres, p_dni \o <<"/">>, p_dni \o p_sun, <<"/">>}
C29_Values ==
    {v_78, v_a_c, <<"A", ".", "b">>, <<".", ".", "/", "x">>, <<"a", "_", "b">>,
     <<"1", ",", "2">>, <<" ">>, <<"N", "G">>}

\* The two functions give the stated form on every path, name, value and
\* millisecond.
C29_Functions ==
    \A e \in C29_Paths, n \in {n_dni, n_apepaterno \o <<"_">> \o n_apematerno},
       v \in C29_Values, t \in {0, 9, 10, 1762222222} :
        /\ generateStoragePath(e, n, v, t)
              = KeyOfForm(e, <<>>, n, v, t, <<"j", "s", "o", "n">>)
        /\ \A x \in {s_png, s_pdf, s_bin} :
              generateMediaPath(e, n, v, x, t)
                  = KeyOfForm(e, <<"m", "e", "d", "i", "a", "/">>, n, v, t, x)

\* A timer callback that has something to save has derived its key, and the
\* key has the stated form, with the millisecond the callback read.
C29_KeysOfRequests ==
    \A r \in Requests :
        LET q == req[r]
        IN  /\ q.persist \in {"downloading", "saving", "saved", "failed"} =>
                  q.filePath # <<>>
            /\ q.filePath # <<>> =>
                  \E t \in 0..now :
                      IF q.plan = "text"
                      THEN q.filePath = KeyOfForm(q.route.path, <<>>, q.paramName,
                                            q.paramValue, t, <<"j", "s", "o", "n">>)
                      ELSE q.filePath = KeyOfForm(q.route.path,
                                            <<"m", "e", "d", "i", "a", "/">>, q.paramName,
                                            q.paramValue, t, mediaExtension(q.resultData.s))

\* C29: key derivation never fails and yields, for every route, paramName and
\* paramValue, consultas/<route with the leading / stripped and the remaining
\* / replaced by _>/<paramName>_<paramValue with every character outside
\* [A-Za-z0-9] replaced by _>_<millisecond timestamp>.json; the media key has
\* the same form with media/ after the route and the supplied extension.
C29_KeyForm == C29_Functions /\ C29_KeysOfRequests

\* An object written under the key of a value with a space, and the key of
\* a medium derived for another request.
C29_Witness ==
    \E r1, r2 \in Requests :
        /\ req[r1].paramValue = v_a_c \o <<"_">> \o v_b /\ req[r1].persist = "saved"
        /\ \E f \in files :
              /\ f.name = req[r1].filePath
              /\ includes(f.name, <<"a", "_", "c", "_", "b", "_">>)
        /\ req[r2].plan = "pdf" /\ endsWith(req[r2].filePath, <<".">> \o s_pdf)
        /\ includes(req[r2].filePath, <<"/", "m", "e", "d", "i", "a", "/">>)


\* -------------------------------------------------------------- claim C30

\* The request is on a route that takes one of a set of parameters.
OneOfSet(q) == q.handler \in {"sun", "pasaporte", "fisdet", "MultipleParamNames"}

\* The first name, in the declared order of the route, whose value in the URL
\* is not empty.
FirstNonEmpty(q) ==
    LET filled == {i \in 1..Len(q.route.names) : ~falsy(q.query[q.route.names[i]])}
    IN  q.route.names[CHOOSE i \in filled : \A j \in filled : i <= j]

\* The lookup, the GET and the key of the request use the name and the value.
UsesParameter(q, name, value) ==
    /\ q.paramName = name /\ q.paramValue = value
    /\ q.gets > 0 => q.url = <<q.route.apiPath, <<<<name, value>>>>>>
    /\ (q.filePath # <<>> /\ q.plan = "text") =>
          \E t \in 0..MaxClock :
              q.filePath = generateStoragePath(q.route.path, name, value, t)
    /\ (q.filePath # <<>> /\ q.plan \in {"image", "pdf"}) =>
          \E t \in 0..MaxClock :
              q.filePath = generateMediaPath(q.route.path, name, value,
                                             mediaExtension(q.resultData.s), t)
    /\ q.latestFile # <<>> => KeyHolds(q.latestFile, value)

\* C30, as stated: on a one-of-set route the parameter used for the lookup,
\* the upstream GET and the persisted key is the first name in the declared
\* order of the route whose value is non-empty, with the value of that same
\* name; a later name is used only when every earlier one is missing or empty.
C30_FirstNonEmptyName ==
    \A r \in Requests :
        LET q == req[r]
        IN  (Validated(q) /\ OneOfSet(q)) =>
                UsesParameter(q, FirstNonEmpty(q), q.query[FirstNonEmpty(q)])

\* C30, amended: the value used is that of the first name in the declared
\* order whose value is non-empty; the name used with it is that same name,
\* except on /sun and /sunat, where it is dni_o_ruc whichever of dni_o_ruc and
\* query carried the value.
C30_FirstNonEmptyValue ==
    \A r \in Requests :
        LET q == req[r]
        IN  (Validated(q) /\ OneOfSet(q)) =>
                UsesParameter(q,
                              IF q.handler = "sun" THEN n_dni_o_ruc ELSE FirstNonEmpty(q),
                              q.query[FirstNonEmpty(q)])

\* A request on /sun whose value came in query, sent upstream and written
\* under dni_o_ruc, and a request on /fisdet with distritojudicial and query,
\* sent upstream under distritojudicial.
C30_Witness ==
    \E r1, r2 \in Requests :
        /\ req[r1].route.path = p_sun /\ falsy(req[r1].query[n_dni_o_ruc])
        /\ req[r1].query[n_query] = v_78 /\ req[r1].persist = "saved"
        /\ req[r1].url = <<p_sun, <<<<n_dni_o_ruc, v_78>>>>>>
        /\ \E f \in files : f.name = req[r1].filePath
        /\ req[r2].route.path = p_fisdet /\ req[r2].query[n_query] = v_7
        /\ req[r2].gets = 1
        /\ req[r2].url = <<p_fisdet, <<<<n_distritojudicial, v_78>>>>>>


\* ---------------------------------------------------------------------
\* GET /storage/stats

IsStats(q) == q.handler = "stats"

\* The sum of the counters of a record of counters.
RECURSIVE sumOf(_, _)
sumOf(counters, keys) ==
    IF keys = {} THEN 0
    ELSE LET k == CHOOSE x \in keys : TRUE
         IN  counters[k] + sumOf(counters, keys \ {k})

Total(counters) == sumOf(counters, DOMAIN counters)

\* A step of a statistics request leaves the store as it is, and the request
\* asks the store for nothing but one listing.
C31_ReadOnly ==
    \A r \in Requests :
        (IsStats(req'[r]) /\ req'[r] # req[r]) =>
            /\ files' = files
            /\ req'[r].puts = 0 /\ req'[r].pending = {} /\ req'[r].persist = "none"
            /\ req'[r].downloads = 0 /\ req'[r].gets = 0 /\ req'[r].mediaGets = 0
            /\ req'[r].listings <= 1

\* An answer of the statistics counts each listed object once in totalFiles,
\* once in byType and once in endpoints.
C31_Consistent ==
    \A r \in Requests :
        (IsStats(req[r]) /\ req[r].status = 200) =>
            LET stats == req[r].body.stats
            IN  /\ \A n \in req[r].listed : startsWith(n, s_consultas)
                /\ stats.totalFiles = Cardinality(req[r].listed)
                /\ DOMAIN stats.byType = FileTypes
                /\ stats.totalFiles = Total(stats.byType)
                /\ stats.totalFiles = Total(stats.endpoints)

\* C31: the statistics endpoint never writes or deletes an object, and in
\* every answer totalFiles is the sum of the four byType counters (json, images,
\* pdfs, other) and the sum of the counters of endpoints, over the objects it
\* listed under consultas/.
C31_StatsReadOnly == [][C31_ReadOnly]_vars /\ []C31_Consistent

\* The statistics were answered over a store that holds structured objects of
\* two routes and a medium another request saved.
C31_Witness ==
    \E r, p \in Requests :
        /\ IsStats(req[r]) /\ req[r].status = 200
        /\ req[p].persist = "saved" /\ req[p].filePath \in req[r].listed
        /\ req[r].body.stats.totalFiles = 3
        /\ req[r].body.stats.byType["json"] = 2
        /\ req[r].body.stats.byType["images"] = 1
        /\ Cardinality(DOMAIN req[r].body.stats.endpoints) = 2
        /\ files # {}

=============================================================================
